---- MODULE Spec2Model ----
(***************************************************************************)
(* Verification model of ducc0's spherical-harmonic coefficient layout     *)
(* (Alm_Base / Alm / rotate_alm) and of its threading layer (latch,        *)
(* concurrent_queue, thread_pool, Distribution, thread_map).               *)
(*                                                                         *)
(* Seven state machines share this module, each with its own               *)
(* specification:                                                          *)
(*   SpecAlm      the three Alm_Base constructors and rotate_alm           *)
(*   SpecWigner   wigner_d_risbo_openmp: recurse(), one assignment a step  *)
(*   SpecSched    one Distribution: exec* followed by interleaved getNext  *)
(*   SpecParallel SpecSched with Distribution::execParallel                *)
(*   Spec         the thread_pool: submit / worker_main / shutdown/restart *)
(*   SpecMap      Distribution::thread_map running on the thread_pool      *)
(*   SpecLatch    class latch: one wait() against n count_down()           *)
(* FairSpec, FairSpecRestart, FairSpecMap and FairSpecLatch add the        *)
(* fairness of a fair thread scheduler.                                    *)
(***************************************************************************)
EXTENDS Integers, Sequences, FiniteSets, TLC

VARIABLES
  \* ---- Alm_Base / Alm / rotate_alm
  ctor,        \* which constructor produced the object, or how it ended
  lmax,        \* Alm_Base::lmax
  arrsize,     \* Alm_Base::arrsize
  mval,        \* Alm_Base::mval   (1-based sequence)
  mstart,      \* Alm_Base::mstart (entry m+1 is the C++ mstart[m])
  mstart_,     \* the mstart_ argument of the explicit constructor
  oob,         \* the constructor read mval outside [0, size)
  rot,         \* position of rotate_alm
  rot_i,       \* loop variable of rotate_alm (m or l)
  theta0,      \* rotate_alm was called with theta == 0
  reads,       \* buffer slots rotate_alm has read
  writes,      \* buffer slots rotate_alm has written
  almtmp,      \* rotate_alm: per m (entry m+1) the terms added to almtmp[m]
  bdone,       \* rotate_alm: thread_nums whose fan-out body has returned
  bthrew,      \* rotate_alm: thread_nums whose fan-out body threw
  drv_d,       \* rotate_alm: the cells of d read for the current degree
  drv_idx,     \* rotate_alm: <<vector, index>> used on almtmp, exppsi, expphi
  \* ---- wigner_d_risbo_openmp
  rec_lmax,    \* the lmax the recurrer was constructed with
  rec_n,       \* wigner_d_risbo_openmp::n
  rec_todo,    \* the statements of the running recurse() still to execute
  rec_d,       \* cells of d written by the running (or last) recurse()
  rec_dd,      \* cells of dd written by the running (or last) recurse()
  rec_held,    \* cells of d written by the call before
  rec_pc,      \* "none", "ready", "running", "failed" (bounds check), "crashed"
  rec_calls,   \* the number of recurse() calls made
  rec_ret,     \* the buffer the last completed recurse() returned
  rec_wild,    \* indices read from sqt that lie outside the vector
  \* ---- Distribution (the scheduler)
  entry,       \* the exec* entry point called on the Distribution
  mode,        \* Distribution::mode
  nthreads_,   \* Distribution::nthreads_
  nwork_,      \* Distribution::nwork_
  chunksize_,  \* Distribution::chunksize_
  cur_,        \* Distribution::cur_
  fact_max_,   \* Distribution::fact_max_, as <<numerator, denominator>>
  nextstart,   \* Distribution::nextstart (entry t+1 is the C++ nextstart[t])
  single_done, \* Distribution::single_done
  default_nthreads_, \* detail_threading::default_nthreads_
  got,         \* per thread_num t (entry t+1): the ranges getNext() returned
  fin,         \* thread_nums whose body received the empty range
  \* ---- thread_pool
  nworkers,    \* workers_.size()
  shutdown_,   \* thread_pool::shutdown_
  busy_flag,   \* worker::busy_flag, per worker
  work,        \* worker::work, the one-slot register, per worker
  local_work,  \* local_work of worker_main, per worker
  wpc,         \* position of each worker thread in worker_main
  q_,          \* concurrent_queue::q_ of overflow_work_
  size_,       \* concurrent_queue::size_ of overflow_work_
  op,          \* the call that holds thread_pool::mut_, and its position
  restarting,  \* restart() has reset shutdown_ and not yet locked mut_
  down,        \* shutdown() has returned and restart() was not called since
  nshut,       \* number of shutdown() calls made
  nextjob,     \* number of the next job a client submits
  submitted,   \* jobs whose submit() returned normally
  rejected,    \* jobs whose submit() threw
  ran,         \* per job: how many times a worker executed it
  \* ---- Distribution::thread_map
  lpc,         \* position of the thread that called thread_map
  map_n,       \* nthreads_ of the fan-out
  map_i,       \* the loop variable i of thread_map
  num_left_,   \* latch::num_left_
  ex,          \* the exception slot ex of thread_map
  invoked,     \* per thread_num: how many times f(sched) was invoked
  threw,       \* thread_nums whose f(sched) threw
  caught,      \* thread_nums in the order their catch block stored into ex
  counted,     \* thread_nums whose wrapper called count_down()
  result,      \* how thread_map ended
  \* ---- class latch, used on its own
  latch_n,     \* the n the latch was constructed with
  mut_,        \* latch::mut_: the thread that holds it, or NoThread
  completed_,  \* latch::completed_: the threads blocked in its wait
  latch_pc,    \* per thread: where it is in wait() or count_down()
  waited       \* wait() has blocked in completed_ at least once

rotVars == <<almtmp, bdone, bthrew, drv_d, drv_idx>>

recVars == <<rec_lmax, rec_n, rec_todo, rec_d, rec_dd, rec_held, rec_pc,
             rec_calls, rec_ret, rec_wild>>

almVars == <<ctor, lmax, arrsize, mval, mstart, mstart_, oob, rot, rot_i,
             theta0, reads, writes, rotVars, recVars>>

schedVars == <<entry, mode, nthreads_, nwork_, chunksize_, cur_, fact_max_,
               nextstart, single_done, default_nthreads_, got, fin>>

poolVars == <<nworkers, shutdown_, busy_flag, work, local_work, wpc, q_, size_,
              op, restarting, down, nshut, nextjob, submitted, rejected, ran>>

latchVars == <<latch_n, mut_, completed_, latch_pc, waited>>

mapVars == <<lpc, map_n, map_i, num_left_, ex, invoked, threw, caught, counted,
             result, latchVars>>

vars == <<almVars, schedVars, poolVars, mapVars>>

----------------------------------------------------------------------------
\* Bounds of the model.

\* largest band limit lmax tried
MaxL == 2

\* width, in bits, of the modelled size_t / ptrdiff_t
SizeBits == 12

\* largest pool, number of plain jobs submitted, number of shutdown() calls
MaxWorkers == 2
MaxJobs == 3
MaxShutdowns == 1

\* largest nwork, nthreads and chunk size handed to the scheduler
MaxWork == 4
MaxThreads == 3
MaxChunk == 2

\* how many getNext() calls the bodies make after their empty range, in total
MaxExtraPolls == 1

\* the largest lmax of a wigner_d_risbo_openmp
MaxRecL == 3

\* how many recurse() calls are made after the first lmax+1
MaxBeyond == 2

\* the largest n of a latch used on its own
MaxCount == 3

----------------------------------------------------------------------------
\* Machine integers.

SizeMod == 2 ^ SizeBits

\* conversion to size_t: reduction modulo 2^SizeBits
ToSize(x) == x % SizeMod

\* conversion to ptrdiff_t: the two's complement reading of the same bits
ToPtrdiff(x) ==
  LET u == x % SizeMod
  IN  IF u >= SizeMod \div 2 THEN u - SizeMod ELSE u

MaxOf(a, b) == IF a >= b THEN a ELSE b

Last(s) == s[Len(s)]

SeqRange(s) == { s[i] : i \in 1..Len(s) }

\* all sequences over S of length 0..n
RECURSIVE SeqsUpTo(_, _)
SeqsUpTo(S, n) ==
  IF n = 0 THEN { <<>> }
  ELSE LET shorter == SeqsUpTo(S, n - 1)
       IN  shorter \cup { Append(s, x) : s \in { t \in shorter : Len(t) = n - 1 }, x \in S }

----------------------------------------------------------------------------
\* Alm_Base

\* Alm_Base::Num_Alms, which asserts m <= l before it is evaluated
Num_Alms(l, m) == ToSize(ToSize(ToSize((m + 1) * (m + 2)) \div 2) + ToSize((m + 1) * (l - m)))

\* the fill value -2*lmax of mstart.resize
Sentinel(L) == ToPtrdiff(ToSize(-2) * L)

\* the assertions shared by the two sparse constructors
MvalChecksFail(L, mv) ==
  \/ Len(mv) = 0
  \/ \E i \in 1..Len(mv) : mv[i] > L
  \/ \E i \in 2..Len(mv) : ~(mv[i] > mv[i - 1])

\* ---- explicit constructor Alm_Base(lmax_, mval_, mstart_)

\* a slip: the ascending check accepts equal neighbours
ExplicitFailsNonStrict(L, mv, ms) ==
  \/ Len(mv) = 0
  \/ Len(ms) # Len(mv)
  \/ \E i \in 1..Len(mv) : mv[i] > L
  \/ \E i \in 2..Len(mv) : ~(mv[i] >= mv[i - 1])

ExplicitFails(L, mv, ms) ==
  \/ Len(mv) = 0
  \/ Len(ms) # Len(mv)
  \/ MvalChecksFail(L, mv)

\* arrsize after the first i iterations of the second loop
RECURSIVE ExplicitArrsize(_, _, _)
ExplicitArrsize(L, ms, i) ==
  IF i = 0 THEN 0
  ELSE ToSize(MaxOf(ToPtrdiff(ExplicitArrsize(L, ms, i - 1)),
                    ms[i] + ToPtrdiff(ToSize(L + 1))))

ExplicitMstart(L, mv, ms) ==
  [ k \in 1..(Last(mv) + 1) |->
      IF \E i \in 1..Len(mv) : mv[i] = k - 1
      THEN ms[CHOOSE i \in 1..Len(mv) : mv[i] = k - 1]
      ELSE Sentinel(L) ]

\* ---- implicit constructor Alm_Base(lmax_, mval_)

\* cnt on entry of the loop body that handles mv[k]: the increment
\* expression "++i, cnt+=lmax-mval[i]+1" runs after ++i
RECURSIVE ImplicitCnt(_, _, _)
ImplicitCnt(L, mv, k) ==
  IF k = 1 THEN 0
  ELSE ToSize(ImplicitCnt(L, mv, k - 1) + ToSize(ToSize(L - mv[k]) + 1))

ImplicitMstart(L, mv) ==
  [ k \in 1..(Last(mv) + 1) |->
      IF \E i \in 1..Len(mv) : mv[i] = k - 1
      THEN LET i == CHOOSE i \in 1..Len(mv) : mv[i] = k - 1
           IN  ToPtrdiff(ImplicitCnt(L, mv, i)) - ToPtrdiff(mv[i])
      ELSE Sentinel(L) ]

\* the 0-based positions of mval the increment expression reads: it runs
\* after each of the mval.size() loop bodies, with i already incremented
ImplicitIncrementReads(mv) == 1..Len(mv)

ImplicitReadsPastEnd(mv) == \E i \in ImplicitIncrementReads(mv) : i >= Len(mv)

\* ---- dense constructor Alm_Base(lmax_, mmax_)

\* idx on entry of the loop body for column m
RECURSIVE DenseIdx(_, _)
DenseIdx(L, m) ==
  IF m = 0 THEN 0
  ELSE ToPtrdiff(ToSize(DenseIdx(L, m - 1)) + ToSize(ToSize(L - (m - 1)) + 1))

\* a slip: the column offset is stored without subtracting m
DenseMstartNoShift(L, M) ==
  [ k \in 1..(M + 1) |-> DenseIdx(L, k - 1) ]

DenseMstart(L, M) ==
  [ k \in 1..(M + 1) |-> ToPtrdiff(ToSize(DenseIdx(L, k - 1)) - (k - 1)) ]

DenseMval(M) == [ k \in 1..(M + 1) |-> k - 1 ]

\* ---- accessors

Lmax == lmax
Mmax == Last(mval)
n_entries == arrsize
index_l0(m) == ToSize(mstart[m + 1])
index(l, m) == ToSize(index_l0(m) + l)
\* a slip: size compared with lmax instead of lmax+1
completeOffByOne == Len(mval) = lmax

complete == Len(mval) = lmax + 1

\* the pairs (l, m) the layout stores
Stored == { p \in (0..lmax) \X SeqRange(mval) : p[2] <= p[1] }

Constructed == ctor \in {"dense", "explicit", "implicit"}

----------------------------------------------------------------------------
\* Inputs tried.

LVals == 0..MaxL
MVals == 0..(MaxL + 1)
MvalArgs == SeqsUpTo(MVals, MaxL + 1)
MstartVals == { -(2 * MaxL + 1), -1, MaxL }
MstartArgs == SeqsUpTo(MstartVals, MaxL + 1)

\* the pool and thread_map, untouched, for the specifications without them
PoolIdle ==
  /\ nworkers = 1
  /\ shutdown_ = FALSE
  /\ busy_flag = <<FALSE>>
  /\ work = <<>>
  /\ local_work = <<>>
  /\ wpc = <<>>
  /\ q_ = <<>>
  /\ size_ = 0
  /\ op = <<>>
  /\ restarting = FALSE
  /\ down = FALSE
  /\ nshut = 0
  /\ nextjob = 1
  /\ submitted = {}
  /\ rejected = {}
  /\ ran = <<>>

\* no latch is used on its own
LatchIdle ==
  /\ latch_n = 0
  /\ mut_ = -1
  /\ completed_ = {}
  /\ latch_pc = <<>>
  /\ waited = FALSE

MapIdle ==
  /\ LatchIdle
  /\ lpc = "none"
  /\ map_n = 0
  /\ map_i = 0
  /\ num_left_ = 0
  /\ ex = <<"null", 0>>
  /\ invoked = <<>>
  /\ threw = {}
  /\ caught = <<>>
  /\ counted = {}
  /\ result = <<"null", 0>>

\* no recurrer constructed
RecIdle ==
  /\ rec_lmax = 0
  /\ rec_n = -1
  /\ rec_todo = <<>>
  /\ rec_d = {}
  /\ rec_dd = {}
  /\ rec_held = {}
  /\ rec_pc = "none"
  /\ rec_calls = 0
  /\ rec_ret = "none"
  /\ rec_wild = {}

AlmIdle ==
  /\ ctor = "none"
  /\ lmax = 0
  /\ arrsize = 0
  /\ mval = <<>>
  /\ mstart = <<>>
  /\ mstart_ = <<>>
  /\ oob = FALSE
  /\ rot = "idle"
  /\ rot_i = 0
  /\ theta0 = FALSE
  /\ reads = {}
  /\ writes = {}
  /\ almtmp = <<>>
  /\ bdone = {}
  /\ bthrew = {}
  /\ drv_d = {}
  /\ drv_idx = {}
  /\ RecIdle

ConstructExplicit(L, mv, ms) ==
  /\ ctor = "none"
  /\ lmax' = L
  /\ mval' = mv
  /\ mstart_' = ms
  /\ IF ExplicitFails(L, mv, ms)
     THEN /\ ctor' = "failed_explicit"
          /\ UNCHANGED <<arrsize, mstart>>
     ELSE /\ ctor' = "explicit"
          /\ mstart' = ExplicitMstart(L, mv, ms)
          /\ arrsize' = ExplicitArrsize(L, ms, Len(mv))
  /\ UNCHANGED <<oob, rot, rot_i, theta0, reads, writes,
                 rotVars, recVars,
                 schedVars, poolVars, mapVars>>

ConstructImplicit(L, mv, fault) ==
  /\ ctor = "none"
  /\ lmax' = L
  /\ mval' = mv
  /\ IF MvalChecksFail(L, mv)
     THEN /\ ctor' = "failed_implicit"
          /\ UNCHANGED <<arrsize, mstart, oob>>
     ELSE /\ oob' = ImplicitReadsPastEnd(mv)
          /\ mstart' = ImplicitMstart(L, mv)
          \* the value read past the end only feeds cnt, which is dead by
          \* then; the read itself may fault
          /\ IF oob' /\ fault
             THEN /\ ctor' = "fault"
                  /\ UNCHANGED arrsize
             ELSE /\ ctor' = "implicit"
                  /\ arrsize' = ToSize(Last(mstart') + ToPtrdiff(ToSize(L + 1)))
  /\ UNCHANGED <<mstart_, rot, rot_i, theta0, reads, writes,
                 rotVars, recVars,
                 schedVars, poolVars, mapVars>>

ConstructDense(L, M) ==
  /\ ctor = "none"
  /\ lmax' = L
  /\ mval' = DenseMval(M)
  /\ mstart' = DenseMstart(L, M)
  /\ IF M <= L
     THEN /\ ctor' = "dense"
          /\ arrsize' = Num_Alms(L, M)
     ELSE /\ ctor' = "failed_dense"
          /\ UNCHANGED arrsize
  /\ UNCHANGED <<mstart_, oob, rot, rot_i, theta0, reads, writes,
                 rotVars, recVars,
                 schedVars, poolVars, mapVars>>

----------------------------------------------------------------------------
\* rotate_alm on an Alm<complex<T>>, which only the dense constructor builds.

RotateBegin(thetaZero) ==
  /\ ctor = "dense"
  /\ rot = "idle"
  /\ IF ~complete
     THEN rot' = "failed"
     ELSE rot' = IF thetaZero THEN "phase" ELSE "wigner"
  /\ rot_i' = 0
  /\ theta0' = thetaZero
  /\ UNCHANGED <<ctor, lmax, arrsize, mval, mstart, mstart_, oob, reads, writes,
                 rotVars, recVars,
                 schedVars, poolVars, mapVars>>

\* theta == 0: alm(l,m) *= ang for l = m..lmax, one m per step
RotatePhase ==
  /\ rot = "phase"
  /\ LET slots == { index(l, rot_i) : l \in rot_i..lmax }
     IN  /\ reads' = reads \cup slots
         /\ writes' = writes \cup slots
  /\ IF rot_i = lmax
     THEN /\ rot' = "done"
          /\ UNCHANGED rot_i
     ELSE /\ rot_i' = rot_i + 1
          /\ UNCHANGED rot
  /\ UNCHANGED <<ctor, lmax, arrsize, mval, mstart, mstart_, oob, theta0,
                 rotVars, recVars,
                 schedVars, poolVars, mapVars>>


----------------------------------------------------------------------------
\* Distribution: exec* set the mode up; the job bodies, one per thread_num,
\* then poll getNext() until it returns the empty range.

MinOf(a, b) == IF a <= b THEN a ELSE b

\* Range(lo, hi); Range() is the empty range
Range(lo, hi) == <<lo, hi>>
EmptyRange == <<0, 0>>
IsEmpty(r) == r[1] >= r[2]

\* a default-constructed Distribution; the scalar members are not
\* initialised by it and every exec* writes the ones its mode reads
SchedIdle ==
  /\ entry = "none"
  /\ mode = "NONE"
  /\ nthreads_ = 0
  /\ nwork_ = 0
  /\ chunksize_ = 0
  /\ cur_ = 0
  /\ fact_max_ = <<0, 1>>
  /\ nextstart = <<>>
  /\ single_done = FALSE
  /\ got = <<>>
  /\ fin = {}

\* nthreads_ = (nthreads==0) ? get_default_nthreads() : nthreads
EffectiveThreads(nthreads) == IF nthreads = 0 THEN default_nthreads_ ELSE nthreads

\* a slip: the rounding term of the default chunk is one too large
StaticChunkOnePast(nwork, nthr, chunksize) ==
  IF chunksize < 1 THEN ToSize(nwork + nthr) \div nthr ELSE chunksize

\* chunksize_ of execStatic
StaticChunk(nwork, nthr, chunksize) ==
  IF chunksize < 1 THEN ToSize(ToSize(nwork + nthr) - 1) \div nthr ELSE chunksize

\* a slip: the one chunk is marked as served from the start
SetSingleDone(nwork) ==
  /\ mode' = "SINGLE"
  /\ single_done' = TRUE
  /\ nwork_' = nwork
  /\ nthreads_' = 1

\* the state execSingle leaves, thread_map about to run
SetSingle(nwork) ==
  /\ mode' = "SINGLE"
  /\ single_done' = FALSE
  /\ nwork_' = nwork
  /\ nthreads_' = 1

\* the state execStatic leaves, thread_map about to run
SetStatic(nwork, nthreads, chunksize) ==
  LET nthr == EffectiveThreads(nthreads)
      chunk == StaticChunk(nwork, nthr, chunksize)
  IN  /\ chunksize_' = chunk
      /\ IF chunk >= nwork
         THEN /\ SetSingle(nwork)
              /\ UNCHANGED nextstart
         ELSE /\ mode' = "STATIC"
              /\ nthreads_' = nthr
              /\ nwork_' = nwork
              /\ nextstart' = [ i \in 1..nthr |-> ToSize((i - 1) * chunk) ]
              /\ UNCHANGED single_done

StartBodies == got' = [ t \in 1..nthreads_' |-> <<>> ] /\ fin' = {}

execSingle(nwork) ==
  /\ entry = "none"
  /\ entry' = "execSingle"
  /\ SetSingle(nwork)
  /\ StartBodies
  /\ UNCHANGED <<chunksize_, cur_, fact_max_, nextstart, default_nthreads_, almVars, poolVars, mapVars>>

execStatic(nwork, nthreads, chunksize) ==
  /\ entry = "none"
  /\ entry' = "execStatic"
  /\ SetStatic(nwork, nthreads, chunksize)
  /\ StartBodies
  /\ UNCHANGED <<cur_, fact_max_, default_nthreads_, almVars, poolVars, mapVars>>

\* execDynamic and execGuided (the free execDynamic passes fact_max = 0)
execDynamic(nwork, nthreads, chunksize_min, fact_max) ==
  /\ entry = "none"
  /\ entry' = "execDynamic"
  /\ LET nthr == EffectiveThreads(nthreads)
         chunk == IF chunksize_min < 1 THEN 1 ELSE chunksize_min
     IN  IF ToSize(chunk * nthr) >= nwork
         THEN /\ SetStatic(nwork, nthreads, 0)
              /\ UNCHANGED <<cur_, fact_max_>>
         ELSE /\ mode' = "DYNAMIC"
              /\ nthreads_' = nthr
              /\ nwork_' = nwork
              /\ chunksize_' = chunk
              /\ fact_max_' = fact_max
              /\ cur_' = 0
              /\ UNCHANGED <<nextstart, single_done>>
  /\ StartBodies
  /\ UNCHANGED <<default_nthreads_, almVars, poolVars, mapVars>>

\* nextstart as execStatic would set it up for chunksize_ = 1
ParallelNextstartResized(nthr) == nextstart' = [ i \in 1..nthr |-> ToSize(i - 1) ]

\* what execParallel does to nextstart: nothing
ParallelNextstart(nthr) == UNCHANGED nextstart

\* execParallel: STATIC with one item per thread
execParallel(nthreads) ==
  /\ entry = "none"
  /\ entry' = "execParallel"
  /\ LET nthr == EffectiveThreads(nthreads)
     IN  /\ mode' = "STATIC"
         /\ nthreads_' = nthr
         /\ nwork_' = nthr
         /\ chunksize_' = 1
         /\ ParallelNextstart(nthr)
  /\ StartBodies
  /\ UNCHANGED <<cur_, fact_max_, single_done, default_nthreads_, almVars, poolVars, mapVars>>

\* a slip: the stride of the other threads' chunks is left out
StaticAdvanceNoStride(t) == ToSize(nextstart[t + 1] + chunksize_)

\* nextstart[thread_id] after a STATIC getNext
StaticAdvance(t) == ToSize(nextstart[t + 1] + ToSize(nthreads_ * chunksize_))

\* a slip: the share is not divided among the threads
GuidedChunkNoThreads(rem) == (fact_max_[1] * rem) \div fact_max_[2]

\* size_t((fact_max_*double(rem))/double(nthreads_)); the fact_max tried are
\* dyadic, so the double arithmetic is exact up to the final truncation
GuidedChunk(rem) == (fact_max_[1] * rem) \div (fact_max_[2] * nthreads_)

\* sz of a DYNAMIC getNext
DynamicSize ==
  LET rem == nwork_ - cur_
  IN  MinOf(rem, MaxOf(chunksize_, GuidedChunk(rem)))

\* the range Distribution::getNext(thread_id) returns
NextRange(t) ==
  CASE mode = "SINGLE" ->
         IF single_done THEN EmptyRange ELSE Range(0, nwork_)
    [] mode = "STATIC" ->
         IF nextstart[t + 1] >= nwork_ THEN EmptyRange
         ELSE Range(nextstart[t + 1],
                    MinOf(ToSize(nextstart[t + 1] + chunksize_), nwork_))
    [] mode = "DYNAMIC" ->
         IF cur_ >= nwork_ THEN EmptyRange
         ELSE Range(cur_, ToSize(cur_ + DynamicSize))

\* the polls made by bodies that had received the empty range before
ExtraPolls ==
  Cardinality({ p \in UNION { { <<t, k>> : k \in 2..Len(got[t]) } : t \in 1..Len(got) } :
                 IsEmpty(got[p[1]][p[2] - 1]) })

\* STATIC, and nextstart has no element thread_id
StaticOutOfRange(t) == mode = "STATIC" /\ t + 1 > Len(nextstart)

\* what a read of nextstart[thread_id] outside the vector may yield: some
\* value below nwork_ or some value not below it
WildVals(t) == {0, t, nwork_}

\* getNext() in STATIC mode when nextstart[thread_id] lies outside the
\* vector: the accesses are undefined behaviour.  The process may crash, or
\* the read yields some value v and the call goes on with it; the write
\* nextstart[thread_id] += ... then falls outside the vector as well
getNextWild(t) ==
  \/ /\ entry' = "crashed"
     /\ UNCHANGED <<got, fin>>
  \/ /\ \E v \in WildVals(t) :
          LET r == IF v >= nwork_ THEN EmptyRange
                   ELSE Range(v, MinOf(ToSize(v + chunksize_), nwork_))
          IN  /\ got' = [got EXCEPT ![t + 1] = Append(@, r)]
              /\ fin' = IF IsEmpty(r) THEN fin \cup {t} ELSE fin
     /\ UNCHANGED entry

\* one getNext() of the body running as thread_num t; a body may poll again
\* after the empty range
getNext(t) ==
  /\ mode # "NONE"
  /\ entry # "crashed"
  /\ t \in 0..(nthreads_ - 1)
  /\ t \notin fin \/ ExtraPolls < MaxExtraPolls
  /\ IF StaticOutOfRange(t)
     THEN /\ Len(got[t + 1]) <= MaxExtraPolls
          /\ getNextWild(t)
          /\ UNCHANGED <<single_done, nextstart, cur_>>
     ELSE LET r == NextRange(t)
          IN  /\ got' = [got EXCEPT ![t + 1] = Append(@, r)]
              /\ fin' = IF IsEmpty(r) THEN fin \cup {t} ELSE fin
              /\ single_done' = IF mode = "SINGLE" THEN TRUE ELSE single_done
              /\ nextstart' = IF mode = "STATIC" /\ nextstart[t + 1] < nwork_
                              THEN [nextstart EXCEPT ![t + 1] = StaticAdvance(t)]
                              ELSE nextstart
              /\ cur_' = IF mode = "DYNAMIC" /\ cur_ < nwork_
                         THEN ToSize(cur_ + DynamicSize)
                         ELSE cur_
              /\ UNCHANGED entry
  /\ UNCHANGED <<mode, nthreads_, nwork_, chunksize_, fact_max_,
                 default_nthreads_, almVars, poolVars, mapVars>>

WorkVals == 0..MaxWork
ThreadVals == 0..MaxThreads
ChunkVals == 0..MaxChunk
FactMaxVals == { <<0, 1>>, <<1, 2>>, <<2, 1>> }

InitSched ==
  /\ SchedIdle
  /\ default_nthreads_ \in 1..MaxThreads
  /\ AlmIdle
  /\ PoolIdle
  /\ MapIdle

NextSched ==
  \/ /\ entry = "none"
     /\ \E nwork \in WorkVals : execSingle(nwork)
  \/ /\ entry = "none"
     /\ \E nwork \in WorkVals, nthreads \in ThreadVals, chunksize \in ChunkVals :
          execStatic(nwork, nthreads, chunksize)
  \/ /\ entry = "none"
     /\ \E nwork \in WorkVals, nthreads \in ThreadVals, chunksize \in ChunkVals,
           fact_max \in FactMaxVals :
          execDynamic(nwork, nthreads, chunksize, fact_max)
  \/ \E t \in 0..(MaxThreads - 1) : getNext(t)

SpecSched == InitSched /\ [][NextSched]_vars

\* the same with execParallel among the entry points
NextParallel ==
  \/ NextSched
  \/ /\ entry = "none"
     /\ \E nthreads \in ThreadVals : execParallel(nthreads)

SpecParallel == InitSched /\ [][NextParallel]_vars

----------------------------------------------------------------------------
\* thread_pool: the work items.

NoWork == <<"null", 0>>               \* an empty std::function
DummyWork == <<"dummy", 0>>           \* the no-op wake-up []{}
Job(k) == <<"job", k>>                \* the k-th job a client submits
Wrapper(i) == <<"wrapper", i>>        \* thread_map's lambda for thread_num i

NoOp == [kind |-> "none", pc |-> "none", job |-> NoWork, i |-> 0, pass |-> 0]

Workers == 1..nworkers

\* the pool right after its constructor: create_threads() has started every
\* worker; shutdown_ of the static pool object is zero-initialised
PoolFresh ==
  /\ shutdown_ = FALSE
  /\ busy_flag = [w \in Workers |-> FALSE]
  /\ work = [w \in Workers |-> NoWork]
  /\ local_work = [w \in Workers |-> NoWork]
  /\ wpc = [w \in Workers |-> "top"]
  /\ q_ = <<>>
  /\ size_ = 0
  /\ op = NoOp
  /\ restarting = FALSE
  /\ down = FALSE
  /\ nshut = 0
  /\ nextjob = 1
  /\ submitted = {}
  /\ rejected = {}
  /\ ran = [k \in 1..MaxJobs |-> 0]

\* ---- worker::worker_main

\* while (!shutdown_flag)
WorkerTop(w) ==
  /\ w \in Workers
  /\ wpc[w] = "top"
  /\ wpc' = [wpc EXCEPT ![w] = IF shutdown_ THEN "exited" ELSE "lock"]
  /\ UNCHANGED <<nworkers, shutdown_, busy_flag, work, local_work, q_, size_, op,
                 restarting, down, nshut, nextjob, submitted, rejected, ran>>
  /\ UNCHANGED <<almVars, schedVars, mapVars>>

\* work_ready.wait(lock, pred): with worker.mut held, the predicate
\* (work || shutdown_flag) is evaluated; when it holds, local_work.swap(work)
WorkerWaitCheck(w) ==
  /\ w \in Workers
  /\ wpc[w] = "lock"
  /\ IF work[w] # NoWork \/ shutdown_
     THEN /\ local_work' = [local_work EXCEPT ![w] = work[w]]
          /\ work' = [work EXCEPT ![w] = NoWork]
          /\ wpc' = [wpc EXCEPT ![w] = "run"]
     ELSE /\ wpc' = [wpc EXCEPT ![w] = "prewait"]
          /\ UNCHANGED <<local_work, work>>
  /\ UNCHANGED <<nworkers, shutdown_, busy_flag, q_, size_, op, restarting, down,
                 nshut, nextjob, submitted, rejected, ran>>
  /\ UNCHANGED <<almVars, schedVars, mapVars>>

\* the predicate was false: the wait releases worker.mut and blocks
WorkerPark(w) ==
  /\ w \in Workers
  /\ wpc[w] = "prewait"
  /\ wpc' = [wpc EXCEPT ![w] = "parked"]
  /\ UNCHANGED <<nworkers, shutdown_, busy_flag, work, local_work, q_, size_, op,
                 restarting, down, nshut, nextjob, submitted, rejected, ran>>
  /\ UNCHANGED <<almVars, schedVars, mapVars>>

\* a condition variable may wake without a notification
SpuriousWake(w) ==
  /\ w \in Workers
  /\ wpc[w] = "parked"
  /\ wpc' = [wpc EXCEPT ![w] = "lock"]
  /\ UNCHANGED <<nworkers, shutdown_, busy_flag, work, local_work, q_, size_, op,
                 restarting, down, nshut, nextjob, submitted, rejected, ran>>
  /\ UNCHANGED <<almVars, schedVars, mapVars>>

\* the effect of notify_one / notify_all on worker w's condition variable
Notified(w) == IF wpc[w] = "parked" THEN [wpc EXCEPT ![w] = "lock"] ELSE wpc

\* if (local_work) local_work();  for a client's job, the no-op or nothing;
\* thread_map's wrapper is stepped through by WrapperBody and what follows it
WorkerRun(w) ==
  /\ w \in Workers
  /\ wpc[w] = "run"
  /\ local_work[w][1] # "wrapper"
  /\ ran' = IF local_work[w][1] = "job"
            THEN [ran EXCEPT ![local_work[w][2]] = @ + 1]
            ELSE ran
  /\ wpc' = [wpc EXCEPT ![w] = "try_pop"]
  /\ UNCHANGED <<nworkers, shutdown_, busy_flag, work, local_work, q_, size_, op,
                 restarting, down, nshut, nextjob, submitted, rejected>>
  /\ UNCHANGED <<almVars, schedVars, mapVars>>

\* concurrent_queue::try_pop: if (size_==0) return false;
WorkerTryPop(w) ==
  /\ w \in Workers
  /\ wpc[w] = "try_pop"
  /\ wpc' = [wpc EXCEPT ![w] = IF size_ = 0 THEN "clear" ELSE "pop_locked"]
  /\ UNCHANGED <<nworkers, shutdown_, busy_flag, work, local_work, q_, size_, op,
                 restarting, down, nshut, nextjob, submitted, rejected, ran>>
  /\ UNCHANGED <<almVars, schedVars, mapVars>>

\* concurrent_queue::try_pop, with its mutex held: q_.empty() or the pop
WorkerPopLocked(w) ==
  /\ w \in Workers
  /\ wpc[w] = "pop_locked"
  /\ IF q_ = <<>>
     THEN /\ wpc' = [wpc EXCEPT ![w] = "clear"]
          /\ UNCHANGED <<size_, q_, local_work>>
     ELSE /\ size_' = size_ - 1
          /\ local_work' = [local_work EXCEPT ![w] = Head(q_)]
          /\ q_' = Tail(q_)
          /\ wpc' = [wpc EXCEPT ![w] = "run"]
  /\ UNCHANGED <<nworkers, shutdown_, busy_flag, work, op, restarting, down,
                 nshut, nextjob, submitted, rejected, ran>>
  /\ UNCHANGED <<almVars, schedVars, mapVars>>

\* busy_flag.clear();
WorkerClear(w) ==
  /\ w \in Workers
  /\ wpc[w] = "clear"
  /\ busy_flag' = [busy_flag EXCEPT ![w] = FALSE]
  /\ wpc' = [wpc EXCEPT ![w] = "top"]
  /\ UNCHANGED <<nworkers, shutdown_, work, local_work, q_, size_, op,
                 restarting, down, nshut, nextjob, submitted, rejected, ran>>
  /\ UNCHANGED <<almVars, schedVars, mapVars>>

\* ---- thread_pool::submit, with mut_ held from its first line to its return

\* a slip: the shutdown_ test is left out
SubmitBeginNoCheck(job) ==
  /\ op = NoOp
  /\ op' = [kind |-> "submit", pc |-> "scan", job |-> job, i |-> 1, pass |-> 1]
  /\ UNCHANGED rejected

\* lock_t lock(mut_); if (shutdown_) throw ...
SubmitBegin(job) ==
  /\ op = NoOp
  /\ IF shutdown_
     THEN /\ rejected' = rejected \cup {job}
          /\ UNCHANGED op
     ELSE /\ op' = [kind |-> "submit", pc |-> "scan", job |-> job, i |-> 1, pass |-> 1]
          /\ UNCHANGED rejected

\* a slip: the worker is taken whatever its busy_flag says
SubmitScanNoTest ==
  /\ op.kind = "submit"
  /\ op.pc = "scan"
  /\ op.i <= nworkers
  /\ busy_flag' = [busy_flag EXCEPT ![op.i] = TRUE]
  /\ op' = [op EXCEPT !.pc = "publish"]
  /\ UNCHANGED <<nworkers, shutdown_, work, local_work, wpc, q_, size_,
                 restarting, down, nshut, nextjob, submitted, rejected, ran>>
  /\ UNCHANGED <<almVars, schedVars, mapVars>>

\* submit_to_idle: one busy_flag.test_and_set() of the scan
SubmitScan ==
  /\ op.kind = "submit"
  /\ op.pc = "scan"
  /\ op.i <= nworkers
  /\ IF busy_flag[op.i]
     THEN /\ op' = [op EXCEPT !.i = @ + 1]
          /\ UNCHANGED busy_flag
     ELSE /\ busy_flag' = [busy_flag EXCEPT ![op.i] = TRUE]
          /\ op' = [op EXCEPT !.pc = "publish"]
  /\ UNCHANGED <<nworkers, shutdown_, work, local_work, wpc, q_, size_,
                 restarting, down, nshut, nextjob, submitted, rejected, ran>>
  /\ UNCHANGED <<almVars, schedVars, mapVars>>

\* submit_to_idle: { lock_t lock(worker.mut); worker.work = std::move(work); }
SubmitPublish ==
  /\ op.kind = "submit"
  /\ op.pc = "publish"
  /\ wpc[op.i] # "prewait"
  /\ work' = [work EXCEPT ![op.i] = IF op.pass = 1 THEN op.job ELSE DummyWork]
  /\ op' = [op EXCEPT !.pc = "notify"]
  /\ UNCHANGED <<nworkers, shutdown_, busy_flag, local_work, wpc, q_, size_,
                 restarting, down, nshut, nextjob, submitted, rejected, ran>>
  /\ UNCHANGED <<almVars, schedVars, mapVars>>

\* submit_to_idle: worker.work_ready.notify_one(); return true;  submit returns
SubmitNotify ==
  /\ op.kind = "submit"
  /\ op.pc = "notify"
  /\ wpc' = Notified(op.i)
  /\ submitted' = submitted \cup {op.job}
  /\ op' = NoOp
  /\ UNCHANGED <<nworkers, shutdown_, busy_flag, work, local_work, q_, size_,
                 restarting, down, nshut, nextjob, rejected, ran>>
  /\ UNCHANGED <<almVars, schedVars, mapVars>>

\* the first scan found every flag set: concurrent_queue::push, ++size_
SubmitPushSize ==
  /\ op.kind = "submit"
  /\ op.pc = "scan"
  /\ op.pass = 1
  /\ op.i > nworkers
  /\ size_' = size_ + 1
  /\ op' = [op EXCEPT !.pc = "push"]
  /\ UNCHANGED <<nworkers, shutdown_, busy_flag, work, local_work, wpc, q_,
                 restarting, down, nshut, nextjob, submitted, rejected, ran>>
  /\ UNCHANGED <<almVars, schedVars, mapVars>>

\* concurrent_queue::push, with its mutex held: q_.push; then the second scan
SubmitPushQueue ==
  /\ op.kind = "submit"
  /\ op.pc = "push"
  /\ q_' = Append(q_, op.job)
  /\ op' = [op EXCEPT !.pc = "scan", !.i = 1, !.pass = 2]
  /\ UNCHANGED <<nworkers, shutdown_, busy_flag, work, local_work, wpc, size_,
                 restarting, down, nshut, nextjob, submitted, rejected, ran>>
  /\ UNCHANGED <<almVars, schedVars, mapVars>>

\* the second scan found every flag set as well: submit returns
SubmitReturn ==
  /\ op.kind = "submit"
  /\ op.pc = "scan"
  /\ op.pass = 2
  /\ op.i > nworkers
  /\ submitted' = submitted \cup {op.job}
  /\ op' = NoOp
  /\ UNCHANGED <<nworkers, shutdown_, busy_flag, work, local_work, wpc, q_, size_,
                 restarting, down, nshut, nextjob, rejected, ran>>
  /\ UNCHANGED <<almVars, schedVars, mapVars>>

\* a client thread calls submit with its next job
Submit ==
  /\ nextjob <= MaxJobs
  /\ SubmitBegin(Job(nextjob))
  /\ nextjob' = nextjob + 1
  /\ UNCHANGED <<nworkers, shutdown_, busy_flag, work, local_work, wpc, q_, size_,
                 restarting, down, nshut, submitted, ran>>
  /\ UNCHANGED <<almVars, schedVars, mapVars>>

\* ---- thread_pool::shutdown

\* lock_t lock(mut_); shutdown_locked(): shutdown_ = true;
ShutdownBegin ==
  /\ op = NoOp
  /\ ~restarting
  /\ nshut < MaxShutdowns
  /\ nshut' = nshut + 1
  /\ shutdown_' = TRUE
  /\ op' = [kind |-> "shutdown", pc |-> "notify", job |-> NoWork, i |-> 1, pass |-> 0]
  /\ UNCHANGED <<nworkers, busy_flag, work, local_work, wpc, q_, size_,
                 restarting, down, nextjob, submitted, rejected, ran>>
  /\ UNCHANGED <<almVars, schedVars, mapVars>>

\* shutdown_locked(): worker.work_ready.notify_all(), one worker per step
ShutdownNotify ==
  /\ op.kind = "shutdown"
  /\ op.pc = "notify"
  /\ wpc' = Notified(op.i)
  /\ op' = IF op.i = nworkers THEN [op EXCEPT !.pc = "join", !.i = 1]
                              ELSE [op EXCEPT !.i = @ + 1]
  /\ UNCHANGED <<nworkers, shutdown_, busy_flag, work, local_work, q_, size_,
                 restarting, down, nshut, nextjob, submitted, rejected, ran>>
  /\ UNCHANGED <<almVars, schedVars, mapVars>>

\* shutdown_locked(): if (worker.thread.joinable()) worker.thread.join();
\* after the last join shutdown() returns
ShutdownJoin ==
  /\ op.kind = "shutdown"
  /\ op.pc = "join"
  /\ wpc[op.i] \in {"exited", "joined"}
  /\ wpc' = [wpc EXCEPT ![op.i] = "joined"]
  /\ IF op.i = nworkers
     THEN op' = NoOp /\ down' = TRUE
     ELSE op' = [op EXCEPT !.i = @ + 1] /\ UNCHANGED down
  /\ UNCHANGED <<nworkers, shutdown_, busy_flag, work, local_work, q_, size_,
                 restarting, nshut, nextjob, submitted, rejected, ran>>
  /\ UNCHANGED <<almVars, schedVars, mapVars>>

\* ---- thread_pool::restart, called as the fork hooks do: after shutdown()

\* shutdown_ = false;  (mut_ is not held)
RestartFlag ==
  /\ down
  /\ op = NoOp
  /\ shutdown_' = FALSE
  /\ restarting' = TRUE
  /\ down' = FALSE
  /\ UNCHANGED <<nworkers, busy_flag, work, local_work, wpc, q_, size_, op,
                 nshut, nextjob, submitted, rejected, ran>>
  /\ UNCHANGED <<almVars, schedVars, mapVars>>

\* create_threads(): lock_t lock(mut_);
CreateBegin ==
  /\ restarting
  /\ op = NoOp
  /\ restarting' = FALSE
  /\ op' = [kind |-> "create", pc |-> "loop", job |-> NoWork, i |-> 1, pass |-> 0]
  /\ UNCHANGED <<nworkers, shutdown_, busy_flag, work, local_work, wpc, q_, size_,
                 down, nshut, nextjob, submitted, rejected, ran>>
  /\ UNCHANGED <<almVars, schedVars, mapVars>>

\* create_threads(): busy_flag.clear(); work = nullptr; thread = std::thread(...)
CreateThread ==
  /\ op.kind = "create"
  /\ busy_flag' = [busy_flag EXCEPT ![op.i] = FALSE]
  /\ work' = [work EXCEPT ![op.i] = NoWork]
  /\ wpc' = [wpc EXCEPT ![op.i] = "top"]
  /\ op' = IF op.i = nworkers THEN NoOp ELSE [op EXCEPT !.i = @ + 1]
  /\ UNCHANGED <<nworkers, shutdown_, local_work, q_, size_, restarting, down,
                 nshut, nextjob, submitted, rejected, ran>>
  /\ UNCHANGED <<almVars, schedVars, mapVars>>

\* the steps of one worker thread, and of the call that holds mut_
WorkerStep(w) ==
  \/ WorkerTop(w)
  \/ WorkerWaitCheck(w)
  \/ WorkerPark(w)
  \/ WorkerRun(w)
  \/ WorkerTryPop(w)
  \/ WorkerPopLocked(w)
  \/ WorkerClear(w)

SubmitStep ==
  \/ SubmitScan
  \/ SubmitPublish
  \/ SubmitNotify
  \/ SubmitPushSize
  \/ SubmitPushQueue
  \/ SubmitReturn

InitPool ==
  /\ nworkers \in 1..MaxWorkers
  /\ PoolFresh
  /\ MapIdle
  /\ AlmIdle
  /\ SchedIdle
  /\ default_nthreads_ = 1

NextRunning ==
  \/ Submit
  \/ SubmitStep
  \/ \E w \in 1..MaxWorkers : WorkerStep(w)
  \/ \E w \in 1..MaxWorkers : SpuriousWake(w)

NextPool ==
  \/ NextRunning
  \/ ShutdownBegin
  \/ ShutdownNotify
  \/ ShutdownJoin
  \/ RestartFlag
  \/ CreateBegin
  \/ CreateThread

Spec == InitPool /\ [][NextPool]_vars

\* a fair scheduler: a thread that can take a step eventually takes it, and
\* a thread contending for a mutex eventually gets it; clients need not call,
\* and spurious wake-ups need not happen
PoolFairness ==
  /\ \A w \in 1..MaxWorkers : WF_vars(WorkerStep(w))
  /\ SF_vars(SubmitStep)

FairSpec == InitPool /\ [][NextRunning]_vars /\ PoolFairness

\* the steps inside shutdown() and restart(); the calls themselves are the
\* clients' choice
LifecycleStep ==
  \/ ShutdownNotify
  \/ ShutdownJoin
  \/ CreateBegin
  \/ CreateThread

\* the pool with its whole life cycle, under the fair scheduler
FairSpecRestart ==
  InitPool /\ [][NextPool]_vars /\ PoolFairness /\ SF_vars(LifecycleStep)

----------------------------------------------------------------------------
\* Distribution::thread_map on the pool, and class latch.

NoExc == <<"null", 0>>                \* an empty std::exception_ptr
Exc(i) == <<"exc", i>>                \* what f(sched) of thread_num i threw
Normal == <<"ok", 0>>                 \* thread_map returned normally
LifecycleError == <<"lifecycle", 0>>  \* what submit() throws after shutdown

\* a slip: the latch is one short
latchOneShort(n) == n - 1

\* latch(size_t n): num_left_(n) {}
latch(n) == n

\* thread_map is entered with nthreads_ = n; if (nthreads_ == 1) the body
\* runs inline with MyScheduler sched(*this, 0), else the latch and the
\* exception slot are set up
MapCall(n, throws) ==
  /\ lpc = "idle"
  /\ map_n' = n
  /\ IF n = 1
     THEN /\ invoked' = [invoked EXCEPT ![0] = @ + 1]
          /\ threw' = IF throws THEN {0} ELSE {}
          /\ result' = IF throws THEN Exc(0) ELSE Normal
          /\ lpc' = "returned"
          /\ UNCHANGED <<map_i, num_left_, ex>>
     ELSE /\ num_left_' = latch(n)
          /\ ex' = NoExc
          /\ map_i' = 0
          /\ lpc' = "submit"
          /\ UNCHANGED <<invoked, threw, result>>
  /\ UNCHANGED <<counted, caught>>
  /\ UNCHANGED <<almVars, schedVars, poolVars, latchVars>>

\* for (size_t i=0; i<nthreads_; ++i) pool.submit([...]{...});
MapSubmit ==
  /\ lpc = "submit"
  /\ map_i < map_n
  /\ SubmitBegin(Wrapper(map_i))
  /\ IF shutdown_
     THEN lpc' = "returned" /\ result' = LifecycleError /\ UNCHANGED map_i
     ELSE map_i' = map_i + 1 /\ UNCHANGED <<lpc, result>>
  /\ UNCHANGED <<map_n, num_left_, ex, invoked, threw, caught, counted>>
  /\ UNCHANGED <<nworkers, shutdown_, busy_flag, work, local_work, wpc, q_, size_,
                 restarting, down, nshut, nextjob, submitted, ran>>
  /\ UNCHANGED <<almVars, schedVars, latchVars>>

\* the last submit() has returned: counter.wait() is called
MapLoopEnd ==
  /\ lpc = "submit"
  /\ map_i = map_n
  /\ op = NoOp
  /\ lpc' = "latch_lock"
  /\ UNCHANGED <<map_n, map_i, num_left_, ex, invoked, threw, caught, counted, result>>
  /\ UNCHANGED <<almVars, schedVars, poolVars, latchVars>>

\* latch::wait: completed_.wait(lock, is_ready) with latch::mut_ held: the
\* wait is over when num_left_ == 0, else it releases mut_ and blocks
MapLatchWait ==
  /\ lpc = "latch_lock"
  /\ lpc' = IF num_left_ = 0 THEN "rethrow" ELSE "latch_parked"
  /\ UNCHANGED <<map_n, map_i, num_left_, ex, invoked, threw, caught, counted, result>>
  /\ UNCHANGED <<almVars, schedVars, poolVars, latchVars>>

\* completed_ may wake without a notification
MapSpuriousWake ==
  /\ lpc = "latch_parked"
  /\ lpc' = "latch_lock"
  /\ UNCHANGED <<map_n, map_i, num_left_, ex, invoked, threw, caught, counted, result>>
  /\ UNCHANGED <<almVars, schedVars, poolVars, latchVars>>

\* if (ex) std::rethrow_exception(ex);  else thread_map returns
MapFinish ==
  /\ lpc = "rethrow"
  /\ result' = IF ex # NoExc THEN ex ELSE Normal
  /\ lpc' = "returned"
  /\ UNCHANGED <<map_n, map_i, num_left_, ex, invoked, threw, caught, counted>>
  /\ UNCHANGED <<almVars, schedVars, poolVars, latchVars>>

\* the wrapper on worker w: try { MyScheduler sched(*this, i); f(sched); }
WrapperBody(w, throws) ==
  /\ w \in Workers
  /\ wpc[w] = "run"
  /\ local_work[w][1] = "wrapper"
  /\ invoked' = [invoked EXCEPT ![local_work[w][2]] = @ + 1]
  /\ threw' = IF throws THEN threw \cup {local_work[w][2]} ELSE threw
  /\ UNCHANGED caught
  /\ wpc' = [wpc EXCEPT ![w] = IF throws THEN "catch" ELSE "count"]
  /\ UNCHANGED <<lpc, map_n, map_i, num_left_, ex, counted, result>>
  /\ UNCHANGED <<nworkers, shutdown_, busy_flag, work, local_work, q_, size_, op,
                 restarting, down, nshut, nextjob, submitted, rejected, ran>>
  /\ UNCHANGED <<almVars, schedVars, latchVars>>

\* a variant: the slot is written only while it is empty
WrapperCatchKeepFirst(w) ==
  /\ w \in Workers
  /\ wpc[w] = "catch"
  /\ ex' = IF ex = NoExc THEN Exc(local_work[w][2]) ELSE ex
  /\ wpc' = [wpc EXCEPT ![w] = "count"]
  /\ UNCHANGED <<lpc, map_n, map_i, num_left_, invoked, threw, counted, result>>
  /\ caught' = Append(caught, local_work[w][2])
  /\ UNCHANGED <<nworkers, shutdown_, busy_flag, work, local_work, q_, size_, op,
                 restarting, down, nshut, nextjob, submitted, rejected, ran>>
  /\ UNCHANGED <<almVars, schedVars, latchVars>>

\* catch (...) { lock_guard lock(ex_mut); ex = std::current_exception(); }
WrapperCatch(w) ==
  /\ w \in Workers
  /\ wpc[w] = "catch"
  /\ ex' = Exc(local_work[w][2])
  /\ wpc' = [wpc EXCEPT ![w] = "count"]
  /\ UNCHANGED <<lpc, map_n, map_i, num_left_, invoked, threw, counted, result>>
  /\ caught' = Append(caught, local_work[w][2])
  /\ UNCHANGED <<nworkers, shutdown_, busy_flag, work, local_work, q_, size_, op,
                 restarting, down, nshut, nextjob, submitted, rejected, ran>>
  /\ UNCHANGED <<almVars, schedVars, latchVars>>

\* counter.count_down(): with latch::mut_ held, if (--num_left_) return;
\* completed_.notify_all();  then the wrapper returns to worker_main
WrapperCountDown(w) ==
  /\ w \in Workers
  /\ wpc[w] = "count"
  /\ num_left_' = ToSize(num_left_ - 1)
  /\ lpc' = IF num_left_' = 0 /\ lpc = "latch_parked" THEN "latch_lock" ELSE lpc
  /\ counted' = counted \cup {local_work[w][2]}
  /\ wpc' = [wpc EXCEPT ![w] = "try_pop"]
  /\ UNCHANGED <<map_n, map_i, ex, invoked, threw, caught, result>>
  /\ UNCHANGED <<nworkers, shutdown_, busy_flag, work, local_work, q_, size_, op,
                 restarting, down, nshut, nextjob, submitted, rejected, ran>>
  /\ UNCHANGED <<almVars, schedVars, latchVars>>

\* the steps of worker w when the pool serves thread_map, and of the caller
MapWorkerStep(w) ==
  \/ WorkerStep(w)
  \/ \E throws \in BOOLEAN : WrapperBody(w, throws)
  \/ WrapperCatch(w)
  \/ WrapperCountDown(w)

MapCallerStep ==
  \/ MapSubmit
  \/ MapLoopEnd
  \/ MapLatchWait
  \/ MapFinish

InitMap ==
  /\ nworkers \in 1..MaxWorkers
  /\ PoolFresh
  /\ AlmIdle
  /\ SchedIdle
  /\ default_nthreads_ = 1
  /\ LatchIdle
  /\ lpc = "idle"
  /\ map_n = 0
  /\ map_i = 0
  /\ num_left_ = 0
  /\ ex = NoExc
  /\ invoked = [i \in 0..(MaxThreads - 1) |-> 0]
  /\ threw = {}
  /\ caught = <<>>
  /\ counted = {}
  /\ result = NoExc

NextMap ==
  \/ \E n \in 1..MaxThreads, throws \in BOOLEAN : MapCall(n, throws)
  \/ MapCallerStep
  \/ MapSpuriousWake
  \/ SubmitStep
  \/ \E w \in 1..MaxWorkers : MapWorkerStep(w)
  \/ \E w \in 1..MaxWorkers : SpuriousWake(w)

SpecMap == InitMap /\ [][NextMap]_vars

\* a fair scheduler, as for the pool; the caller's steps are a thread's too
MapFairness ==
  /\ \A w \in 1..MaxWorkers : WF_vars(MapWorkerStep(w))
  /\ SF_vars(SubmitStep)
  /\ WF_vars(MapCallerStep)

FairSpecMap == InitMap /\ [][NextMap]_vars /\ MapFairness

----------------------------------------------------------------------------
\* Specification of the index scheme.

InitAlm ==
  /\ AlmIdle
  /\ SchedIdle
  /\ default_nthreads_ = 1
  /\ PoolIdle
  /\ MapIdle


----------------------------------------------------------------------------
\* wigner_d_risbo_openmp: recurse() is run one assignment at a time.  An
\* assignment is [w |-> the cell written, r |-> the cells read, sq |-> the
\* indices of sqt read, hs |-> the half-step j it belongs to, or 0]; a cell
\* is <<buffer, row, column>>.  The right-hand side is evaluated before the
\* left-hand side is accessed.  d and dd are array views of shape
\* (lmax+1, 2*lmax+1) with bounds-checked element access; sqt is a
\* std::vector of 2*lmax+1 elements read with the unchecked operator[].

Cell(buf, a, b) == <<buf, a, b>>

Assign(cell, rd, sqidx, j) == [w |-> cell, r |-> rd, sq |-> sqidx, hs |-> j]

\* n==0: d.v(0,0) = 1
StmtsZero == << Assign(Cell("d", 0, 0), {}, {}, 0) >>

\* n==1
StmtsOne ==
  << Assign(Cell("d", 0, 0), {}, {}, 0),
     Assign(Cell("d", 0, 1), {}, {2}, 0),
     Assign(Cell("d", 0, 2), {}, {}, 0),
     Assign(Cell("d", 1, 0), {Cell("d", 0, 1)}, {}, 0),
     Assign(Cell("d", 1, 1), {}, {}, 0),
     Assign(Cell("d", 1, 2), {Cell("d", 0, 1)}, {}, 0) >>

\* a slip: the padding loop stops one column early
PadShort(nn) ==
  [ p \in 1..(2 * nn - 2) |->
      Assign(Cell("d", nn, p - 1), {Cell("d", nn - 2, 2 * nn - 2 - (p - 1))}, {}, 0) ]

\* padding: d.v(n,i) = sign*d(n-2,2*n-2-i) for i = 0..2n-2
Pad(nn) ==
  [ p \in 1..(2 * nn - 1) |->
      Assign(Cell("d", nn, p - 1), {Cell("d", nn - 2, 2 * nn - 2 - (p - 1))}, {}, 0) ]

\* auto &xd((j&1) ? d : dd); auto &xdd((j&1) ? dd: d)
Xd(j) == IF j % 2 = 1 THEN "d" ELSE "dd"
Xdd(j) == IF j % 2 = 1 THEN "dd" ELSE "d"

\* the assignment to xdd.v(k,i) of half-step j; t1..t4 of row k are
\* computed before the row's first assignment
HalfStmt(j, k, i) ==
  LET xd == Xd(j)
      rd == IF k = 0
            THEN IF i = 0 THEN {Cell(xd, 0, 0)}
                 ELSE IF i < j THEN {Cell(xd, 0, i), Cell(xd, 0, i - 1)}
                 ELSE {Cell(xd, 0, j - 1)}
            ELSE IF i = 0 THEN {Cell(xd, k, 0), Cell(xd, k - 1, 0)}
                 ELSE IF i < j THEN {Cell(xd, k, i), Cell(xd, k, i - 1),
                                     Cell(xd, k - 1, i), Cell(xd, k - 1, i - 1)}
                 ELSE {Cell(xd, k, j - 1), Cell(xd, k - 1, j - 1)}
      sqidx == IF k = 0
               THEN IF 0 < i /\ i < j THEN {j, j - i, i} ELSE {}
               ELSE IF i = 0 THEN {j - k, k, j}
                    ELSE IF i < j THEN {j - i, i}
                    ELSE {j}
  IN  Assign(Cell(Xdd(j), k, i), rd, sqidx, j)

\* one pass of the loop over j: rows k = 0..n, each with columns i = 0..j
Half(nn, j) ==
  [ p \in 1..((nn + 1) * (j + 1)) |->
      HalfStmt(j, (p - 1) \div (j + 1), (p - 1) % (j + 1)) ]

\* the assignments of recurse() for the value n has after ++n
Stmts(nn) ==
  IF nn = 0 THEN StmtsZero
  ELSE IF nn = 1 THEN StmtsOne
  ELSE Pad(nn) \o Half(nn, 2 * nn - 1) \o Half(nn, 2 * nn)

\* the bounds check of the array view
InBounds(c) == c[2] \in 0..rec_lmax /\ c[3] \in 0..(2 * rec_lmax)

\* the indices outside sqt, sqt(2*lmax+1)
Wild(sqidx) == { i \in sqidx : i > 2 * rec_lmax }

\* wigner_d_risbo_openmp(lmax, ang)
RecConstruct(L) ==
  /\ rec_pc = "none"
  /\ rec_pc' = "ready"
  /\ rec_lmax' = L
  /\ rec_n' = -1
  /\ UNCHANGED <<rec_todo, rec_d, rec_dd, rec_held, rec_calls, rec_ret, rec_wild>>
  /\ UNCHANGED <<ctor, lmax, arrsize, mval, mstart, mstart_, oob, rot, rot_i,
                 theta0, reads, writes, rotVars, schedVars, poolVars, mapVars>>

\* a call of recurse(), also one made after a call has failed: ++n
RecurseBegin ==
  /\ rec_pc \in {"ready", "failed"}
  /\ rec_n < rec_lmax + MaxBeyond
  /\ rec_pc' = "running"
  /\ rec_n' = rec_n + 1
  /\ rec_calls' = rec_calls + 1
  /\ rec_todo' = Stmts(rec_n + 1)
  /\ rec_held' = rec_d
  /\ rec_d' = {}
  /\ rec_dd' = {}
  /\ UNCHANGED <<rec_lmax, rec_ret, rec_wild>>
  /\ UNCHANGED <<ctor, lmax, arrsize, mval, mstart, mstart_, oob, rot, rot_i,
                 theta0, reads, writes, rotVars, schedVars, poolVars, mapVars>>

\* the bounds check of d or dd throws
RecFails ==
  /\ rec_pc' = "failed"
  /\ rec_todo' = <<>>
  /\ UNCHANGED <<rec_d, rec_dd>>

\* one assignment.  A read outside sqt is undefined: the process may crash,
\* or the read yields some value and the assignment goes on
RecurseStep ==
  /\ rec_pc = "running"
  /\ rec_todo # <<>>
  /\ LET st == Head(rec_todo)
         badr == { c \in st.r : ~InBounds(c) }
     IN  \/ /\ Wild(st.sq) # {}
            /\ rec_wild' = rec_wild \cup Wild(st.sq)
            /\ rec_pc' = "crashed"
            /\ rec_todo' = <<>>
            /\ UNCHANGED <<rec_d, rec_dd>>
         \/ /\ badr # {}
            /\ RecFails
            /\ UNCHANGED rec_wild
         \/ /\ badr = {}
            /\ rec_wild' = rec_wild \cup Wild(st.sq)
            /\ IF ~InBounds(st.w)
               THEN RecFails
               ELSE /\ rec_todo' = Tail(rec_todo)
                    /\ rec_d' = IF st.w[1] = "d" THEN rec_d \cup {st.w} ELSE rec_d
                    /\ rec_dd' = IF st.w[1] = "dd" THEN rec_dd \cup {st.w} ELSE rec_dd
                    /\ UNCHANGED rec_pc
  /\ UNCHANGED <<rec_lmax, rec_n, rec_held, rec_calls, rec_ret>>
  /\ UNCHANGED <<ctor, lmax, arrsize, mval, mstart, mstart_, oob, rot, rot_i,
                 theta0, reads, writes, rotVars, schedVars, poolVars, mapVars>>

\* return d
RecurseReturn ==
  /\ rec_pc = "running"
  /\ rec_todo = <<>>
  /\ rec_pc' = "ready"
  /\ rec_ret' = "d"
  /\ UNCHANGED <<rec_lmax, rec_n, rec_todo, rec_d, rec_dd, rec_held, rec_calls, rec_wild>>
  /\ UNCHANGED <<ctor, lmax, arrsize, mval, mstart, mstart_, oob, rot, rot_i,
                 theta0, reads, writes, rotVars, schedVars, poolVars, mapVars>>

RecLVals == 0..MaxRecL

NextWigner ==
  \/ \E L \in RecLVals : RecConstruct(L)
  \/ RecurseBegin
  \/ RecurseStep
  \/ RecurseReturn

SpecWigner == InitAlm /\ [][NextWigner]_vars

----------------------------------------------------------------------------
\* rotate_alm, theta != 0: for each degree l the Wigner matrix is advanced,
\* almtmp is initialised, the accumulation is fanned out with
\* execStatic(l+1, nthreads, 0, body) and almtmp is written back.  The local
\* nthreads is 1 in the source; the fan-out is modelled for every value
\* execStatic accepts for it, 1 included.

\* flip, as the body has it when the loop over mm reaches mm
RECURSIVE FlipAt(_)
FlipAt(mm) == IF mm = 1 THEN TRUE ELSE ~FlipAt(mm - 1)

\* a slip: the start of the worker's range is left out of the parity
Flip2StartNoLo(mm, lo) == mm % 2 = 1

\* bool flip2 = ((mm+lo)&1)
Flip2Start(mm, lo) == ToSize(mm + lo) % 2 = 1

\* flip2, as the body has it when the loop over m, started at lo, reaches m
RECURSIVE Flip2At(_, _, _)
Flip2At(mm, lo, m) == IF m = lo THEN Flip2Start(mm, lo) ELSE ~Flip2At(mm, lo, m - 1)

\* what one body adds to almtmp[m], in the order of its loop over mm:
\* <<thread_num, mm, d1 is negated, d2 is negated>>
BodyTerms(t, l, lo, m) ==
  [ mm \in 1..l |-> <<t, mm, Flip2At(mm, lo, m), FlipAt(mm)>> ]

\* a slip: every body takes the whole of the work
BodyRangeWhole(t) == Range(0, nwork_)

\* auto rng=sched.getNext(): the one range the body has polled
BodyRange(t) == got[t + 1][1]

\* a slip: the write-back does not depend on the outcome of the fan-out
WriteBackAlways(l) == { index(l, m) : m \in 0..l }

\* the slots the loop after the fan-out writes; it is not reached when
\* thread_map rethrows
WriteBack(l) == IF bthrew = {} THEN { index(l, m) : m \in 0..l } ELSE {}

\* the Distribution of one execStatic call is destroyed when the call returns
DistributionGone ==
  /\ entry' = "none"
  /\ mode' = "NONE"
  /\ nthreads_' = 0
  /\ nwork_' = 0
  /\ chunksize_' = 0
  /\ cur_' = 0
  /\ fact_max_' = <<0, 1>>
  /\ nextstart' = <<>>
  /\ single_done' = FALSE
  /\ got' = <<>>
  /\ fin' = {}

\* the vectors exppsi, expphi and almtmp have lmax+1 elements each; the
\* loop over m fills exppsi and expphi; wigner_d_risbo_openmp rec(lmax,theta)
RotateSetup ==
  /\ rot = "wigner"
  /\ RecConstruct(lmax)

\* the elements of exppsi and expphi the loop over m fills
SetupIdx == { <<v, m>> : v \in {"exppsi", "expphi"}, m \in 0..lmax }

\* rec.recurse() for degree l: the call, its assignments, its return
RotateRecurseCall ==
  /\ rot = "wigner"
  /\ rec_pc = "ready"
  /\ rec_calls = rot_i
  /\ RecurseBegin

RotateRecurseStep ==
  /\ rot = "wigner"
  /\ RecurseStep

RotateRecurseReturn ==
  /\ rot = "wigner"
  /\ RecurseReturn

\* a slip: the column of d is one too far to the right
InitCellsPastColumn(l) == { Cell("d", l, l + m + 1) : m \in 0..l }

\* the cells of d read by almtmp[m] = alm(l,0)*d(l,l+m), m = 0..l
InitCells(l) == { Cell("d", l, l + m) : m \in 0..l }

\* the cells of d a body with the range [lo, hi) reads: d(l-mm,l-m) and
\* d(l-mm,l+m) for mm = 1..l and m = lo..hi-1
BodyCells(l, lo, hi) ==
  UNION { { Cell("d", l - mm, l - m), Cell("d", l - mm, l + m) } :
          mm \in 1..l, m \in lo..(hi - 1) }

\* const auto &d(rec.recurse()) has returned: the loop that initialises
\* almtmp[0..l]
RotateRecurse ==
  /\ rot = "wigner"
  /\ rec_pc = "ready"
  /\ rec_calls = rot_i + 1
  /\ rot' = "fanout"
  /\ reads' = reads \cup { index(rot_i, 0) }
  /\ almtmp' = [ m \in 1..(rot_i + 1) |-> <<>> ]
  /\ drv_d' = InitCells(rot_i)
  /\ drv_idx' = drv_idx \cup SetupIdx \cup { <<"almtmp", m>> : m \in 0..rot_i }
  /\ UNCHANGED <<ctor, lmax, arrsize, mval, mstart, mstart_, oob, rot_i, theta0,
                 writes, bdone, bthrew, recVars, schedVars, poolVars, mapVars>>

\* execStatic(l+1, nthreads, 0, ...) up to the start of the bodies
RotateFanOut(nthreads) ==
  /\ rot = "fanout"
  /\ execStatic(rot_i + 1, nthreads, 0)

\* auto rng=sched.getNext(), which the body calls once
RotateBodyPoll(t) ==
  /\ rot = "fanout"
  /\ entry = "execStatic"
  /\ t \in 0..(nthreads_ - 1)
  /\ got[t + 1] = <<>>
  /\ getNext(t)

\* the rest of the body of thread_num t: the accumulation over its range,
\* or an exception
RotateBody(t, throws) ==
  /\ rot = "fanout"
  /\ entry = "execStatic"
  /\ t \in 0..(nthreads_ - 1)
  /\ Len(got[t + 1]) = 1
  /\ t \notin bdone \cup bthrew
  /\ IF throws
     THEN /\ bthrew' = bthrew \cup {t}
          /\ UNCHANGED <<bdone, almtmp, reads, drv_d, drv_idx>>
     ELSE /\ bdone' = bdone \cup {t}
          /\ reads' = reads \cup { index(rot_i, mm) : mm \in 1..rot_i }
          /\ drv_d' = drv_d \cup BodyCells(rot_i, BodyRange(t)[1], BodyRange(t)[2])
          /\ drv_idx' = drv_idx \cup { <<"exppsi", mm>> : mm \in 1..rot_i }
                                 \cup { <<"almtmp", m>> :
                                          m \in BodyRange(t)[1]..(BodyRange(t)[2] - 1) }
          /\ almtmp' = LET rng == BodyRange(t)
                       IN  [ k \in 1..Len(almtmp) |->
                               IF rng[1] <= k - 1 /\ k - 1 < rng[2]
                               THEN almtmp[k] \o BodyTerms(t, rot_i, rng[1], k - 1)
                               ELSE almtmp[k] ]
          /\ UNCHANGED bthrew
  /\ UNCHANGED <<ctor, lmax, arrsize, mval, mstart, mstart_, oob, rot, rot_i,
                 theta0, writes, recVars, schedVars, poolVars, mapVars>>

\* thread_map returns or rethrows once every body has ended; then the
\* write-back of degree l and the next degree
RotateJoin ==
  /\ rot = "fanout"
  /\ entry = "execStatic"
  /\ bdone \cup bthrew = 0..(nthreads_ - 1)
  /\ writes' = writes \cup WriteBack(rot_i)
  /\ IF bthrew # {}
     THEN /\ rot' = "threw"
          /\ UNCHANGED rot_i
     ELSE IF rot_i = lmax
          THEN /\ rot' = "done"
               /\ UNCHANGED rot_i
          ELSE /\ rot' = "wigner"
               /\ rot_i' = rot_i + 1
  /\ drv_idx' = IF bthrew # {} THEN drv_idx
                ELSE drv_idx \cup { <<v, m>> : v \in {"almtmp", "expphi"}, m \in 0..rot_i }
  /\ bdone' = {}
  /\ bthrew' = {}
  /\ DistributionGone
  /\ UNCHANGED <<ctor, lmax, arrsize, mval, mstart, mstart_, oob, theta0, reads,
                 almtmp, drv_d, recVars, default_nthreads_, poolVars, mapVars>>

RotThreadVals == 1..MaxThreads

\* the guards are tested before the arguments are enumerated
NextAlm ==
  \/ /\ ctor = "none"
     /\ \E L \in LVals, mv \in MvalArgs, ms \in MstartArgs : ConstructExplicit(L, mv, ms)
  \/ /\ ctor = "none"
     /\ \E L \in LVals, mv \in MvalArgs, fault \in BOOLEAN : ConstructImplicit(L, mv, fault)
  \/ /\ ctor = "none"
     /\ \E L \in LVals, M \in MVals : ConstructDense(L, M)
  \/ \E thetaZero \in BOOLEAN : RotateBegin(thetaZero)
  \/ RotatePhase
  \/ RotateSetup
  \/ RotateRecurseCall
  \/ RotateRecurseStep
  \/ RotateRecurseReturn
  \/ RotateRecurse
  \/ \E nthreads \in RotThreadVals : RotateFanOut(nthreads)
  \/ \E t \in 0..(MaxThreads - 1) : RotateBodyPoll(t)
  \/ \E t \in 0..(MaxThreads - 1), throws \in BOOLEAN : RotateBody(t, throws)
  \/ RotateJoin

SpecAlm == InitAlm /\ [][NextAlm]_vars

----------------------------------------------------------------------------
\* class latch on its own: thread 0 calls wait(), the threads 1..n call
\* count_down() once each.  mut_ is taken and released step by step, and
\* completed_.wait(lock, pred) is the loop  while (!pred()) wait(lock).

NoThread == -1
Waiter == 0
Counters == 1..latch_n

\* a latch has been constructed
LatchInUse == DOMAIN latch_pc # {}

\* the members of thread_map that a latch on its own leaves alone
mapOnly == <<lpc, map_n, map_i, ex, invoked, threw, caught, counted, result>>

LatchFrame == UNCHANGED <<mapOnly, almVars, schedVars, poolVars>>

\* latch counter(n), no call made yet
LatchConstruct(n) ==
  /\ ~LatchInUse
  /\ latch_n' = n
  /\ num_left_' = latch(n)
  /\ mut_' = NoThread
  /\ completed_' = {}
  /\ latch_pc' = [ t \in 0..n |-> "start" ]
  /\ UNCHANGED waited
  /\ LatchFrame

\* a slip: the thread goes on without owning mut_
LockNoMutex(t) == mut_' = mut_

\* lock_t lock(mut_): the thread blocks until mut_ is free
Lock(t) == mut_ = NoThread /\ mut_' = t

\* a thread calls wait() or count_down()
LatchCall(t) ==
  /\ t \in DOMAIN latch_pc
  /\ latch_pc[t] = "start"
  /\ latch_pc' = [latch_pc EXCEPT ![t] = "lock"]
  /\ UNCHANGED <<latch_n, num_left_, mut_, completed_, waited>>
  /\ LatchFrame

\* lock_t lock(mut_) in wait() and in count_down(); also the re-locking of
\* mut_ by a waiter that was woken
LatchLock(t) ==
  /\ t \in DOMAIN latch_pc
  /\ latch_pc[t] = "lock"
  /\ Lock(t)
  /\ latch_pc' = [latch_pc EXCEPT ![t] = "locked"]
  /\ UNCHANGED <<latch_n, num_left_, completed_, waited>>
  /\ LatchFrame

\* wait(): the predicate is_ready() is evaluated with mut_ held; when it
\* holds wait() returns and the lock is released
WaitCheck ==
  /\ LatchInUse
  /\ latch_pc[Waiter] = "locked"
  /\ IF num_left_ = 0
     THEN /\ latch_pc' = [latch_pc EXCEPT ![Waiter] = "returned"]
          /\ mut_' = IF mut_ = Waiter THEN NoThread ELSE mut_
     ELSE /\ latch_pc' = [latch_pc EXCEPT ![Waiter] = "sleep"]
          /\ UNCHANGED mut_
  /\ UNCHANGED <<latch_n, num_left_, completed_, waited>>
  /\ LatchFrame

\* wait(): condition_variable::wait(lock) releases mut_ and blocks, atomically
WaitBlock ==
  /\ LatchInUse
  /\ latch_pc[Waiter] = "sleep"
  /\ latch_pc' = [latch_pc EXCEPT ![Waiter] = "blocked"]
  /\ completed_' = completed_ \cup {Waiter}
  /\ mut_' = IF mut_ = Waiter THEN NoThread ELSE mut_
  /\ waited' = TRUE
  /\ UNCHANGED <<latch_n, num_left_>>
  /\ LatchFrame

\* completed_ may wake without a notification
WaitSpuriousWake ==
  /\ LatchInUse
  /\ latch_pc[Waiter] = "blocked"
  /\ latch_pc' = [latch_pc EXCEPT ![Waiter] = "lock"]
  /\ completed_' = completed_ \ {Waiter}
  /\ UNCHANGED <<latch_n, num_left_, mut_, waited>>
  /\ LatchFrame

\* count_down(): if (--num_left_) return;
CountDec(c) ==
  /\ c \in Counters
  /\ latch_pc[c] = "locked"
  /\ num_left_' = ToSize(num_left_ - 1)
  /\ IF num_left_' # 0
     THEN /\ latch_pc' = [latch_pc EXCEPT ![c] = "returned"]
          /\ mut_' = IF mut_ = c THEN NoThread ELSE mut_
     ELSE /\ latch_pc' = [latch_pc EXCEPT ![c] = "notify"]
          /\ UNCHANGED mut_
  /\ UNCHANGED <<latch_n, completed_, waited>>
  /\ LatchFrame

\* count_down(): completed_.notify_all(); the lock is released on return
CountNotify(c) ==
  /\ c \in Counters
  /\ latch_pc[c] = "notify"
  /\ latch_pc' = [ t \in DOMAIN latch_pc |->
                     IF t = c THEN "returned"
                     ELSE IF t \in completed_ THEN "lock"
                     ELSE latch_pc[t] ]
  /\ completed_' = {}
  /\ mut_' = IF mut_ = c THEN NoThread ELSE mut_
  /\ UNCHANGED <<latch_n, num_left_, waited>>
  /\ LatchFrame

\* the steps a thread takes by itself once it has made its call
LatchWaiterStep == LatchLock(Waiter) \/ WaitCheck \/ WaitBlock

LatchCounterStep(c) == LatchLock(c) \/ CountDec(c) \/ CountNotify(c)

InitLatch ==
  /\ AlmIdle
  /\ SchedIdle
  /\ default_nthreads_ = 1
  /\ PoolIdle
  /\ MapIdle

NextLatch ==
  \/ \E n \in 0..MaxCount : LatchConstruct(n)
  \/ \E t \in 0..MaxCount : LatchCall(t)
  \/ LatchWaiterStep
  \/ WaitSpuriousWake
  \/ \E c \in 1..MaxCount : LatchCounterStep(c)

SpecLatch == InitLatch /\ [][NextLatch]_vars

\* every thread that has made its call is scheduled again and again; a
\* spurious wake-up need not happen
LatchFairness ==
  /\ WF_vars(LatchWaiterStep)
  /\ \A c \in 1..MaxCount : WF_vars(LatchCounterStep(c))

FairSpecLatch == InitLatch /\ [][NextLatch]_vars /\ LatchFairness

----------------------------------------------------------------------------
\* Claims about the index scheme.

Injective == \A p, r \in Stored : index(p[1], p[2]) = index(r[1], r[2]) => p = r

RECURSIVE SumTo(_, _)
SumTo(f, n) == IF n = 0 THEN 0 ELSE f[n] + SumTo(f, n - 1)

\* number of slots of the columns before the i-th one of mval
ColumnsBefore(i) == SumTo([ j \in 1..Len(mval) |-> lmax - mval[j] + 1 ], i - 1)

\* C7: for the dense constructor with M <= L, n_entries() is
\* (M+1)(M+2)/2 + (M+1)(L-M), every index(l, m) of a stored pair is below
\* it, and index is injective over the stored pairs.
C7_DenseLayout ==
  ctor = "dense" =>
    /\ n_entries = ((Mmax + 1) * (Mmax + 2)) \div 2 + (Mmax + 1) * (lmax - Mmax)
    /\ \A p \in Stored : index(p[1], p[2]) < n_entries
    /\ Injective

C7_Witness == ctor = "dense" /\ lmax >= 2 /\ Mmax >= 1 /\ Mmax < lmax

\* C8: the implicit sparse constructor packs the columns consecutively in
\* mval order, index is injective over the stored pairs, n_entries() is the
\* number of stored pairs, and only existing elements of mval are read.
C8_ImplicitPacks ==
  /\ ctor \in {"implicit", "fault"} => ~oob
  /\ ctor = "implicit" =>
       /\ \A i \in 1..Len(mval) : index(mval[i], mval[i]) = ColumnsBefore(i)
       /\ Injective
       /\ n_entries = Cardinality(Stored)

\* the explicit constructor's documented failure conditions, on its arguments
C9_ShouldFail ==
  \/ Len(mval) = 0
  \/ Len(mstart_) # Len(mval)
  \/ \E i \in 1..Len(mval) : mval[i] > lmax
  \/ \E i \in 2..Len(mval) : mval[i] <= mval[i - 1]

C9_FailsExactly ==
  /\ ctor = "failed_explicit" => C9_ShouldFail
  /\ ctor = "explicit" => ~C9_ShouldFail

C9_IndexAndMmax ==
  ctor = "explicit" =>
    /\ \A i \in 1..Len(mval) : \A l \in mval[i]..lmax :
         index(l, mval[i]) = ToSize(mstart_[i] + l)
    /\ Mmax = mval[Len(mval)]

\* the largest of mstart_[i] + lmax + 1
C9_MaxEnd ==
  CHOOSE e \in { mstart_[i] + lmax + 1 : i \in 1..Len(mval) } :
    \A i \in 1..Len(mval) : mstart_[i] + lmax + 1 <= e

\* C9 as stated: the explicit constructor fails exactly on the four shape
\* errors, and on success index(l, mval[i]) = mstart[i] + l (as a size_t),
\* Mmax() = last(mval) and n_entries() = max_i(mstart[i] + L + 1).
C9_Original ==
  /\ C9_FailsExactly
  /\ C9_IndexAndMmax
  /\ ctor = "explicit" => n_entries = C9_MaxEnd

\* C9 amended: as above, but n_entries() = max(0, max_i(mstart[i] + L + 1)):
\* the running maximum starts from 0.
C9_Amended ==
  /\ C9_FailsExactly
  /\ C9_IndexAndMmax
  /\ ctor = "explicit" => n_entries = MaxOf(0, C9_MaxEnd)

C9_Witness ==
  /\ ctor = "explicit"
  /\ Len(mval) >= 2
  /\ \A i \in 1..Len(mval) : mstart_[i] + lmax + 1 < 0

\* C10: complete() holds exactly when mval = [0, 1, ..., L], and rotate_alm
\* on a store that is not complete fails before any coefficient is read or
\* written, with theta == 0 and with theta != 0.
C10_CompleteAndRotate ==
  /\ Constructed => (complete <=> mval = [ k \in 1..(lmax + 1) |-> k - 1 ])
  /\ rot = "failed" => reads = {} /\ writes = {}
  /\ rot # "idle" => (rot = "failed" <=> Len(mval) # lmax + 1)

C10_Witness == rot = "failed" /\ theta0 /\ lmax >= 2 /\ Len(mval) = 2

----------------------------------------------------------------------------
\* Claims about the scheduler.

\* the work items of a range
Items(r) == { k \in r[1]..(r[2] - 1) : TRUE }

\* (thread, poll) pairs that received a non-empty range
Handed ==
  UNION { { <<t, i>> : i \in { k \in 1..Len(got[t]) : ~IsEmpty(got[t][k]) } } :
          t \in 1..Len(got) }

AllBodiesDone == mode # "NONE" /\ fin = 0..(nthreads_ - 1)

\* C3: under execStatic and execDynamic/execGuided (also when they degrade
\* to STATIC or SINGLE) the non-empty ranges handed out are pairwise
\* disjoint, and once every worker has received the empty range their union
\* is exactly [0, nwork).
C3_Coverage ==
  entry \in {"execStatic", "execDynamic"} =>
    /\ \A p, q \in Handed :
         p # q => Items(got[p[1]][p[2]]) \cap Items(got[q[1]][q[2]]) = {}
    /\ \A p \in Handed : Items(got[p[1]][p[2]]) \subseteq 0..(nwork_ - 1)
    /\ AllBodiesDone =>
         UNION { Items(got[p[1]][p[2]]) : p \in Handed } = 0..(nwork_ - 1)

C3_Witness ==
  /\ entry = "execDynamic"
  /\ mode = "DYNAMIC"
  /\ AllBodiesDone
  /\ nwork_ >= 4
  /\ Cardinality({ p[1] : p \in Handed }) >= 2

\* the ranges the only body of a SINGLE fan-out has received: [0, nwork)
\* first, the empty range at every later poll
SingleServedOnce ==
  /\ nthreads_ = 1
  /\ \A k \in 1..Len(got[1]) :
       got[1][k] = IF k = 1 THEN Range(0, nwork_) ELSE EmptyRange

\* C11 as stated: in SINGLE mode, for every nwork, the first getNext()
\* returns the non-empty range [0, nwork) and every later one the empty range.
C11_Original ==
  mode = "SINGLE" =>
    /\ SingleServedOnce
    /\ Len(got[1]) >= 1 => ~IsEmpty(got[1][1])

\* C11 amended: in SINGLE mode the first getNext() returns [0, nwork) and
\* every later one the empty range; [0, nwork) is non-empty exactly when
\* nwork >= 1, so for nwork = 0 no non-empty range is ever returned.
C11_Amended ==
  mode = "SINGLE" =>
    /\ SingleServedOnce
    /\ Len(got[1]) >= 1 => (~IsEmpty(got[1][1]) <=> nwork_ >= 1)

C11_Witness ==
  /\ mode = "SINGLE"
  /\ entry = "execStatic"
  /\ nwork_ >= 2
  /\ Len(got[1]) >= 3

Ceil(a, b) == (a + b - 1) \div b

\* the non-empty ranges the body of thread_num t has received
NonEmptyPolls(t) == { k \in 1..Len(got[t + 1]) : ~IsEmpty(got[t + 1][k]) }

\* the start of the i-th stripe (i = 0, 1, ...) of thread_num t
StripeStart(t, i) == (t + i * nthreads_) * chunksize_

\* under STATIC the i-th getNext() of worker t returns its i-th stripe cut at
\* nwork, or the empty range when the stripe starts at or after nwork
StaticStripes ==
  mode = "STATIC" =>
    \A t \in 0..(nthreads_ - 1) :
      /\ \A k \in 1..Len(got[t + 1]) :
           got[t + 1][k] =
             IF StripeStart(t, k - 1) < nwork_
             THEN Range(StripeStart(t, k - 1),
                        MinOf(StripeStart(t, k - 1) + chunksize_, nwork_))
             ELSE EmptyRange
      /\ Cardinality(NonEmptyPolls(t)) <= Ceil(nwork_, nthreads_ * chunksize_)

\* execStatic runs STATIC exactly when the effective chunk C is below nwork,
\* with C the given chunk, or ceil(nwork/nthreads) when the given chunk is 0
StaticEffectiveChunk ==
  (entry = "none" /\ entry' = "execStatic") =>
  \A nwork \in WorkVals, nthreads \in ThreadVals, chunksize \in ChunkVals :
    execStatic(nwork, nthreads, chunksize) =>
      LET n == IF nthreads = 0 THEN default_nthreads_ ELSE nthreads
          C == IF chunksize = 0 THEN Ceil(nwork, n) ELSE chunksize
      IN  IF C < nwork
          THEN mode' = "STATIC" /\ chunksize_' = C /\ nthreads_' = n /\ nwork_' = nwork
          ELSE mode' = "SINGLE"

\* C14: under STATIC with effective chunk size C < nwork the i-th getNext()
\* of worker t returns [(t + i*nthreads)*C, min((t + i*nthreads + 1)*C, nwork))
\* while that start is below nwork and the empty range from then on, so each
\* worker receives at most ceil(nwork / (nthreads*C)) non-empty ranges.
C14_StaticStripes == []StaticStripes /\ [][StaticEffectiveChunk]_vars

C14_Witness ==
  /\ mode = "STATIC"
  /\ entry = "execStatic"
  /\ \E t \in 0..(nthreads_ - 1) :
       Cardinality(NonEmptyPolls(t)) >= 2 /\ Len(got[t + 1]) >= 4

RangeSize(r) == r[2] - r[1]

\* the sizes of the non-empty ranges among the first k that thread t received
RECURSIVE SumPolls(_, _)
SumPolls(t, k) ==
  IF k = 0 THEN 0
  ELSE (IF IsEmpty(got[t][k]) THEN 0 ELSE RangeSize(got[t][k])) + SumPolls(t, k - 1)

\* the sizes of the non-empty ranges the first t threads received
RECURSIVE SumSizes(_)
SumSizes(t) ==
  IF t = 0 THEN 0 ELSE SumPolls(t, Len(got[t])) + SumSizes(t - 1)

\* sz of the claim, for rem items left and minimum chunk cm
ClaimedSize(rem, cm) ==
  LET guided == (fact_max_[1] * rem) \div (fact_max_[2] * nthreads_)
      larger == IF cm >= guided THEN cm ELSE guided
  IN  IF rem <= larger THEN rem ELSE larger

\* a DYNAMIC getNext() made while cur < nwork returns [cur, cur + sz) and
\* moves cur by sz in the same step
DynamicCall ==
  \A t \in 0..(nthreads_ - 1) :
    (mode = "DYNAMIC" /\ cur_ < nwork_ /\ Len(got'[t + 1]) = Len(got[t + 1]) + 1) =>
      LET sz == ClaimedSize(nwork_ - cur_, chunksize_)
      IN  /\ sz >= 1
          /\ Last(got'[t + 1]) = Range(cur_, cur_ + sz)
          /\ cur_' = cur_ + sz

\* what the ranges handed out under DYNAMIC add up to
DynamicTotals ==
  mode = "DYNAMIC" =>
    /\ SumSizes(Len(got)) = cur_
    /\ cur_ <= nwork_
    /\ \A t \in 1..Len(got) : \A k \in 1..Len(got[t]) :
         IsEmpty(got[t][k]) => cur_ = nwork_
    /\ fact_max_[1] = 0 =>
         \A t \in 1..Len(got) : \A k \in 1..Len(got[t]) :
            \/ IsEmpty(got[t][k])
            \/ RangeSize(got[t][k]) = chunksize_
            \/ got[t][k][2] = nwork_

\* execDynamic runs DYNAMIC exactly when cm*nthreads < nwork, then with
\* minimum chunk cm; cm is the chunksize_min given, raised to 1 if clamped
DynamicEntry(clamped) ==
  (entry = "none" /\ entry' = "execDynamic") =>
  \A nwork \in WorkVals, nthreads \in ThreadVals, chunksize_min \in ChunkVals,
     fact_max \in FactMaxVals :
    execDynamic(nwork, nthreads, chunksize_min, fact_max) =>
      LET n == IF nthreads = 0 THEN default_nthreads_ ELSE nthreads
          cm == IF clamped /\ chunksize_min < 1 THEN 1 ELSE chunksize_min
      IN  IF cm * n < nwork
          THEN /\ mode' = "DYNAMIC"
               /\ chunksize_' = cm
               /\ nthreads_' = n
               /\ nwork_' = nwork
               /\ fact_max_' = fact_max
               /\ cur_' = 0
          ELSE mode' # "DYNAMIC"

\* C15 as stated: under DYNAMIC (chunkMin*nthreads < nwork, chunkMin the
\* argument) each call made while cur < nwork returns [cur, cur + sz) with
\* sz = min(rem, max(chunkMin, floor(fact_max*rem/nthreads))) and advances
\* cur by sz; the sizes sum to nwork; with fact_max = 0 every range but
\* possibly the last has size chunkMin.
C15_Original ==
  /\ [][DynamicEntry(FALSE)]_vars
  /\ [][DynamicCall]_vars
  /\ []DynamicTotals

\* C15 amended: the same with chunkMin replaced by max(1, chunkMin), in the
\* condition for DYNAMIC as well as in sz.
C15_Amended ==
  /\ [][DynamicEntry(TRUE)]_vars
  /\ [][DynamicCall]_vars
  /\ []DynamicTotals

C15_Witness ==
  /\ mode = "DYNAMIC"
  /\ AllBodiesDone
  /\ fact_max_[1] > 0
  /\ Cardinality(Handed) >= 2
  /\ \E p \in Handed : RangeSize(got[p[1]][p[2]]) > chunksize_

----------------------------------------------------------------------------
\* Claims about the thread pool.

\* C1: while the pool is running, every job accepted by submit() is
\* eventually executed by some worker, with no later submit() or shutdown()
\* needed, under a fair scheduler.
C1_AcceptedJobRuns ==
  \A k \in 1..MaxJobs : (Job(k) \in submitted) ~> (ran[k] >= 1)

\* C2: when shutdown() has returned, every job whose submit() returned
\* without error has been executed exactly once.
C2_ShutdownRunsAll ==
  down => \A k \in 1..MaxJobs : Job(k) \in submitted => ran[k] = 1

\* C6: between the return of shutdown() and the call of restart(), a
\* submit() throws at once and changes nothing of the pool: no slot, no busy
\* flag, no queue.
C6_SubmitAfterShutdown ==
  [][ (down /\ nextjob' # nextjob) =>
        /\ rejected' = rejected \cup {Job(nextjob)}
        /\ UNCHANGED <<shutdown_, busy_flag, work, local_work, wpc, q_, size_,
                       op, submitted, ran>> ]_vars

C6_Witness == down /\ rejected # {} /\ submitted # {}

\* restart() has returned after a shutdown(), and no shutdown() since
Restarted ==
  /\ nshut >= 1
  /\ ~shutdown_
  /\ ~restarting
  /\ op.kind # "create"

\* what restart() leaves when it returns: the same workers, all started and
\* idle in worker_main, flags clear, slots empty, submit() accepted
RestartLeavesFreshPool ==
  [][ (op.kind = "create" /\ op' = NoOp) =>
        /\ nworkers' = nworkers
        /\ ~shutdown_'
        /\ \A w \in Workers :
             /\ ~busy_flag'[w]
             /\ work'[w] = NoWork
             /\ wpc'[w] \in {"top", "lock", "prewait", "parked"} ]_vars

\* a job whose submit() is called after restart() returned is executed,
\* unless the pool is shut down again
JobsAfterRestartRun ==
  \A k \in 1..MaxJobs :
    [](Restarted /\ nextjob <= k =>
         []((Job(k) \in submitted) => <>(ran[k] >= 1 \/ shutdown_)))

\* C12: after shutdown() and restart() the pool runs again with the same
\* number of workers, every busy flag clear and every slot empty, submit()
\* is accepted, and the jobs submitted from then on are executed.
C12_RestartRecovers == RestartLeavesFreshPool /\ JobsAfterRestartRun

----------------------------------------------------------------------------
\* Claims about thread_map.

ThreadNums == 0..(map_n - 1)

\* what a finished fan-out has to show
FanOutOutcome ==
  /\ counted = ThreadNums
  /\ threw = {} => result = Normal
  /\ threw # {} => \E i \in threw : result = Exc(i)

\* C4: in a fan-out with nthreads > 1 every wrapper counts the latch down
\* and thread_map completes its wait, rethrowing one of the thrown values
\* when some wrapper threw and returning normally when none did.
C4_ExceptionSurvival == (lpc = "submit") ~> (lpc = "returned" /\ FanOutOutcome)

\* C5: thread_map invokes the body at most once per thread_num below
\* nthreads; it has returned only when each of the nthreads invocations was
\* made and, for nthreads > 1, has counted the latch down; with nthreads == 1
\* the body ran inline and nothing went to the pool.
C5_BodyPerThread ==
  /\ \A i \in DOMAIN invoked : invoked[i] <= 1 /\ (invoked[i] = 1 => i < map_n)
  /\ counted \subseteq {i \in DOMAIN invoked : invoked[i] = 1}
  /\ lpc = "returned" =>
       /\ \A i \in ThreadNums : invoked[i] = 1
       /\ map_n > 1 => counted = ThreadNums /\ submitted = {Wrapper(i) : i \in ThreadNums}
       /\ map_n = 1 =>
            /\ submitted = {}
            /\ q_ = <<>>
            /\ size_ = 0
            /\ op = NoOp
            /\ \A w \in Workers : work[w] = NoWork /\ ~busy_flag[w]

C5_Witness ==
  /\ lpc = "returned"
  /\ map_n = MaxThreads
  /\ nworkers < map_n
  /\ threw # {}

\* C13 as stated: when two or more wrappers throw, the slot keeps the first
\* exception captured and thread_map rethrows that one.
C13_Original ==
  map_n > 1 /\ caught # <<>> =>
    /\ ex = Exc(caught[1])
    /\ lpc = "returned" => result = Exc(caught[1])

\* C13 amended: every capture overwrites the slot, so the slot holds the
\* last exception captured (in the order the wrappers took the exception
\* mutex) and thread_map rethrows that one.
C13_Amended ==
  map_n > 1 =>
    /\ ex = IF caught = <<>> THEN NoExc ELSE Exc(Last(caught))
    /\ lpc = "returned" /\ caught # <<>> => result = Exc(Last(caught))

C13_Witness ==
  /\ lpc = "returned"
  /\ Len(caught) >= 2
  /\ result # Exc(caught[1])

----------------------------------------------------------------------------
\* Claims about rotate_alm with theta != 0.

\* the slots of the degrees below l
DegreesBelow(l) == UNION { { index(k, m) : m \in 0..k } : k \in 0..(l - 1) }

\* while degree l is being worked on, and after its fan-out has failed, the
\* degrees below l are written and no other slot is
CommittedBelow ==
  (~theta0 /\ rot \in {"wigner", "fanout", "threw"}) => writes = DegreesBelow(rot_i)

\* the slots of degree l are written in the step in which every body of the
\* fan-out of degree l has returned and none has thrown
WriteBackOnJoin ==
  (~theta0 /\ writes' # writes) =>
     /\ rot = "fanout"
     /\ bthrew = {}
     /\ bdone = 0..(nthreads_ - 1)
     /\ writes' = writes \cup { index(rot_i, m) : m \in 0..rot_i }

\* C16: in rotate_alm with theta != 0 the write-back of degree l happens
\* only after the fan-out of degree l has joined without an exception; when
\* the fan-out of degree l fails, no coefficient of a degree >= l has been
\* modified and every coefficient of a degree < l has been written back.
C16_WriteBackAfterJoin == []CommittedBelow /\ [][WriteBackOnJoin]_vars

C16_Witness == rot = "threw" /\ rot_i = 1 /\ lmax = 2 /\ writes # {}

\* the thread_nums of the running fan-out that have polled their range
Polled == { t \in 0..(nthreads_ - 1) : Len(got[t + 1]) >= 1 }

\* the m that the range polled by thread_num t holds
RangeOf(t) == { m \in 0..rot_i : BodyRange(t)[1] <= m /\ m < BodyRange(t)[2] }

InFanOut == rot = "fanout" /\ entry = "execStatic"

\* the ranges polled are disjoint, and cover [0, l+1) once all are polled
RangesPartition ==
  InFanOut =>
     /\ \A t \in Polled : Len(got[t + 1]) = 1
     /\ \A t, u \in Polled : t # u => RangeOf(t) \cap RangeOf(u) = {}
     /\ Polled = 0..(nthreads_ - 1) => UNION { RangeOf(t) : t \in Polled } = 0..rot_i

\* the terms of almtmp[m] come from the thread_num whose range holds m, and
\* once that body has returned there is one term for each mm in 1..l
OneWriterAllTerms ==
  InFanOut =>
     \A m \in 0..rot_i :
        /\ \A k \in 1..Len(almtmp[m + 1]) :
              almtmp[m + 1][k][1] \in Polled /\ m \in RangeOf(almtmp[m + 1][k][1])
        /\ \A t \in bdone :
              m \in RangeOf(t) =>
                 /\ Len(almtmp[m + 1]) = rot_i
                 /\ \A mm \in 1..rot_i : almtmp[m + 1][mm][2] = mm

\* C17: in the fan-out of degree l, execStatic(l+1, nthreads, 0) with a
\* body that calls getNext() once, for every nthreads >= 1 every thread_num
\* receives at most one non-empty range, the ranges are disjoint and cover
\* [0, l+1), and every almtmp[m] is written by the one thread_num whose
\* range holds m and receives the term of every mm in 1..l exactly once.
C17_FanOutPartition == RangesPartition /\ OneWriterAllTerms

C17_Witness ==
  /\ InFanOut
  /\ mode = "STATIC"
  /\ rot_i = 2
  /\ nthreads_ = 2
  /\ bdone = {0, 1}

Odd(x) == x % 2 = 1

\* the terms almtmp[m] receives from a body whose range is [0, l+1)
SingleRangeTerms(l, m) == [ mm \in 1..l |-> <<mm, Flip2At(mm, 0, m), FlipAt(mm)>> ]

\* the terms of almtmp[m] without the thread_num that added them
Signs(m) == [ k \in 1..Len(almtmp[m + 1]) |->
                <<almtmp[m + 1][k][2], almtmp[m + 1][k][3], almtmp[m + 1][k][4]>> ]

\* the toggled flags have the parities of mm + m and of mm for every start
FlipParities ==
  \A lo \in 0..MaxL, mm \in 1..MaxL :
     /\ FlipAt(mm) = Odd(mm)
     /\ \A m \in lo..MaxL : Flip2At(mm, lo, m) = Odd(mm + m)

\* what the fan-out has added to almtmp[m] is what the single range adds
SameAsSingleRange ==
  InFanOut =>
     \A m \in 0..rot_i :
        /\ \A k \in 1..Len(almtmp[m + 1]) :
              /\ almtmp[m + 1][k][3] = Odd(almtmp[m + 1][k][2] + m)
              /\ almtmp[m + 1][k][4] = Odd(almtmp[m + 1][k][2])
        /\ almtmp[m + 1] # <<>> => Signs(m) = SingleRangeTerms(rot_i, m)

\* C18: in the accumulation d(l-mm, l-m) is negated exactly when mm + m is
\* odd and d(l-mm, l+m) exactly when mm is odd, whatever the start lo of the
\* body's range, so almtmp after a fan-out over any partition of [0, l+1)
\* equals almtmp after a fan-out with the single range [0, l+1).
C18_SignsIndependentOfRange == FlipParities /\ SameAsSingleRange

C18_Witness ==
  /\ InFanOut
  /\ rot_i = 2
  /\ \E t \in bdone : BodyRange(t) = Range(1, 2)
  /\ Len(almtmp[2]) = 2

----------------------------------------------------------------------------
\* Claims about wigner_d_risbo_openmp.

\* the cells d[a, b] with a <= nn and b <= 2*nn
Result(nn) == { Cell("d", a, b) : a \in 0..nn, b \in 0..(2 * nn) }

\* one of the first lmax+1 calls has returned: n, the view, the cells
ReturnsDegree ==
  (rec_pc = "ready" /\ rec_calls \in 1..(rec_lmax + 1)) =>
     /\ rec_n = rec_calls - 1
     /\ rec_ret = "d"
     /\ Result(rec_n) \subseteq rec_d

\* an assignment of a half-step of one of the first lmax+1 calls: the
\* buffers it reads and writes, and where the cells it reads come from
HalfStepAccess ==
  (/\ rec_pc = "running"
   /\ rec_todo # <<>>
   /\ rec_calls \in 1..(rec_lmax + 1)
   /\ Head(rec_todo).hs # 0) =>
     LET st == Head(rec_todo)
         from == IF st.hs = 2 * rec_n - 1 THEN "d" ELSE "dd"
         into == IF st.hs = 2 * rec_n - 1 THEN "dd" ELSE "d"
     IN  /\ st.hs \in {2 * rec_n - 1, 2 * rec_n}
         /\ rec_todo' = Tail(rec_todo)
         /\ st.w[1] = into
         /\ \A c \in st.r :
               /\ c[1] = from
               /\ \/ c \in rec_d \cup rec_dd
                  \/ c \in rec_held \cap Result(rec_n - 1)

\* C19: the k-th call of recurse(), 1 <= k <= L+1, returns with n = k-1 and
\* returns d; for n >= 2 the half-step j = 2n-1 reads d and writes dd and
\* the half-step j = 2n reads dd and writes d, every cell d[a, b] with
\* a <= n and b <= 2n is written during the call, and every cell a
\* half-step reads was written earlier in the call or is a cell of the
\* degree n-1 result.
C19_RecurseDegree == []ReturnsDegree /\ [][HalfStepAccess]_vars

C19_Witness == rec_pc = "ready" /\ rec_lmax = 3 /\ rec_n = 3

\* C20: a call of recurse() made after the first L+1 calls either fails or
\* accesses no cell outside the (L+1) x (2L+1) buffers d and dd and no
\* index outside 0..2L of sqt.
C20_BeyondLmaxSafe ==
  rec_calls > rec_lmax + 1 =>
     /\ rec_wild = {}
     /\ \A c \in rec_d \cup rec_dd : InBounds(c)

----------------------------------------------------------------------------
\* Claims about class latch.

\* wait() returns only in a step that finds the counter at zero
ReturnsAtZero ==
  (LatchInUse /\ LatchInUse'
   /\ latch_pc[Waiter] # "returned" /\ latch_pc'[Waiter] = "returned") => num_left_ = 0

\* with n = 0 wait() never blocks
ZeroNeverBlocks == (LatchInUse /\ latch_n = 0) => ~waited

\* wait() has been called and the n count_down() calls have been made
AllCounted ==
  /\ LatchInUse
  /\ latch_pc[Waiter] # "start"
  /\ \A c \in Counters : latch_pc[c] \in {"notify", "returned"}

\* C21: for a latch initialised to n >= 0 and any interleaving of the n
\* count_down() calls with wait(), wait() never returns while the counter is
\* greater than zero, does not block when n = 0, and eventually returns once
\* the n count_down() calls have been made: the notification of the last
\* count_down() is not lost by a waiter that has just tested the counter.
C21_LatchWait ==
  /\ [][ReturnsAtZero]_vars
  /\ []ZeroNeverBlocks
  /\ AllCounted ~> (LatchInUse /\ latch_pc[Waiter] = "returned")

C21_Witness ==
  /\ LatchInUse
  /\ latch_n = 2
  /\ waited
  /\ latch_pc[Waiter] = "returned"
  /\ \A c \in Counters : latch_pc[c] = "returned"

----------------------------------------------------------------------------
\* Claims about nextstart.

\* an exec* that leaves STATIC leaves nextstart with one element per thread,
\* element thread_id being thread_id*chunksize_
StaticInitialised ==
  (entry = "none" /\ mode' = "STATIC") =>
     /\ Len(nextstart') = nthreads_'
     /\ \A t \in 0..(nthreads_' - 1) : nextstart'[t + 1] = t * chunksize_'

\* a getNext(thread_id) in STATIC mode finds nextstart[thread_id]
NextstartEntryFound ==
  (mode = "STATIC" /\ entry # "none") =>
     /\ entry' # "crashed"
     /\ \A t \in 0..(nthreads_ - 1) :
           Len(got'[t + 1]) = Len(got[t + 1]) + 1 => t + 1 <= Len(nextstart)

\* under execParallel thread t receives [t, t+1) and then the empty range
ParallelRanges ==
  entry = "execParallel" =>
     \A t \in 0..(nthreads_ - 1) :
        /\ Len(got[t + 1]) >= 1 => got[t + 1][1] = Range(t, t + 1)
        /\ Len(got[t + 1]) >= 2 => IsEmpty(got[t + 1][2])

\* C22: in every fan-out whose mode is STATIC, started by execStatic, by
\* execDynamic degrading to STATIC or by execParallel, each
\* getNext(thread_id) finds an element nextstart[thread_id] that was set to
\* thread_id*chunksize for this fan-out; under execParallel(n) the first
\* getNext() of thread t returns [t, t+1) and its second the empty range.
C22_NextstartReady ==
  /\ [][StaticInitialised]_vars
  /\ [][NextstartEntryFound]_vars
  /\ []ParallelRanges

----------------------------------------------------------------------------
\* Claims about the work slots.

\* submit() chooses the worker it writes to by setting a busy_flag that was
\* clear
ClaimsClearFlag ==
  (op.pc # "publish" /\ op'.pc = "publish") =>
     /\ ~busy_flag[op'.i]
     /\ busy_flag'[op'.i]
     /\ work[op'.i] = NoWork

\* from the claim to the write the flag stays set and the slot empty
ClaimedSlotEmpty ==
  op.pc = "publish" => busy_flag[op.i] /\ work[op.i] = NoWork

\* a slot receives a job or the no-op only from the submit() that claimed
\* its worker, and only while the slot is empty
SlotWrittenWhenEmpty ==
  \A w \in Workers :
     (work'[w] # work[w] /\ work'[w] # NoWork) =>
        /\ op.kind = "submit"
        /\ op.pc = "publish"
        /\ op.i = w
        /\ busy_flag[w]
        /\ work[w] = NoWork

\* no job has run twice
RanAtMostOnce == \A k \in 1..MaxJobs : ran[k] <= 1

\* C23: in every reachable state of the pool, submit() writes a worker's
\* work slot only after it has set that worker's busy_flag, finding it
\* clear, and while the slot is empty, so a published job that has not been
\* taken is never overwritten by a job or by the no-op wake-up, and no job
\* is executed more than once, whether it is taken from a slot or popped
\* from the overflow queue by workers draining it concurrently.
C23_SlotsAndJobsOnce ==
  /\ [][ClaimsClearFlag]_vars
  /\ []ClaimedSlotEmpty
  /\ [][SlotWrittenWhenEmpty]_vars
  /\ []RanAtMostOnce

C23_Witness ==
  /\ nworkers = 2
  /\ \A w \in Workers : wpc[w] = "pop_locked"
  /\ Len(q_) = 1
  /\ ran[1] = 1
  /\ ran[2] = 1

\* rotate_alm with theta != 0 is under way or has finished
Rotating == ~theta0 /\ rot \in {"wigner", "fanout", "threw", "done"}

\* recurse() has been called once for every degree reached, and never for
\* a degree above lmax
OncePerDegree ==
  Rotating =>
     /\ rec_calls <= lmax + 1
     /\ rec_n <= lmax
     /\ rot = "wigner" => rec_calls \in {rot_i, rot_i + 1}
     /\ rot \in {"fanout", "threw"} => (rec_calls = rot_i + 1 /\ rec_n = rot_i)
     /\ rot = "done" => rec_calls = lmax + 1

\* no access of the recurrer to d, dd or sqt falls outside the buffers
RecurrerInBounds ==
  Rotating =>
     /\ rec_pc \notin {"failed", "crashed"}
     /\ rec_wild = {}
     /\ \A c \in rec_d \cup rec_dd : InBounds(c)

\* the elements of almtmp, exppsi and expphi used lie in 0..lmax, and the
\* slots of the coefficient buffer used lie inside it
DriverInBounds ==
  Rotating =>
     /\ \A e \in drv_idx : e[2] \in 0..lmax
     /\ \A slot \in reads \cup writes : slot < arrsize

\* the cells of d read for degree l lie in 0 <= a <= l, 0 <= b <= 2l, and
\* the call of recurse() for degree l has assigned each of them
DriverReadsRegion ==
  (~theta0 /\ rot \in {"fanout", "threw"}) =>
     /\ drv_d \subseteq Result(rot_i)
     /\ drv_d \subseteq rec_d

\* the slots of a(l, m), m = 0..l
DegreeSlots(l) == { index(l, m) : m \in 0..l }

\* a step of the work on degree l reads and writes slots of degree l only
SameDegreeOnly ==
  (~theta0 /\ rot \in {"wigner", "fanout"}) =>
     /\ (reads' \ reads) \subseteq DegreeSlots(rot_i)
     /\ (writes' \ writes) \subseteq DegreeSlots(rot_i)

\* C24: during rotate_alm with theta != 0 on a complete store of band-limit
\* L, recurse() is called exactly once per degree, L+1 times in all and
\* never beyond degree L; every access to d, dd, sqt, almtmp, exppsi, expphi
\* and the coefficient buffer is inside its bounds; the cells of d read for
\* degree l lie in 0 <= a <= l, 0 <= b <= 2l; and the update of degree l
\* reads and writes only the coefficients a(l, m) of degree l.
C24_RotateInBounds ==
  /\ []OncePerDegree
  /\ []RecurrerInBounds
  /\ []DriverInBounds
  /\ []DriverReadsRegion
  /\ [][SameDegreeOnly]_vars

C24_Witness ==
  /\ rot = "done"
  /\ ~theta0
  /\ lmax = 2
  /\ rec_calls = 3
  /\ drv_d = InitCells(2) \cup BodyCells(2, 0, 3)
  /\ writes = DegreesBelow(3)

====
